---- MODULE Spec2Model ----
(***************************************************************************)
(* A model of the Pomodoro timer's session entity (utils/session_manager), *)
(* its JSON-lines log store (utils/logger) and the request layer that      *)
(* drives them (app.py).                                                   *)
(*                                                                         *)
(* Python values are tagged records; every tag has its own payload field,  *)
(* so values of different Python types are unequal without being compared  *)
(* field by field.  A Python str is a sequence of glyphs: a glyph is a run *)
(* of printable ASCII characters or one character of another kind.         *)
(***************************************************************************)
EXTENDS Integers, Sequences, FiniteSets, TLC

(***************************************************************************)
(* Bounds of the model.                                                    *)
(***************************************************************************)
MaxTick == 2
MaxSessions == 2
MaxInterruptions == 2
MaxLines == 3
MaxExternal == 2
MaxLimit == 4

(***************************************************************************)
(* Python values.                                                          *)
(***************************************************************************)
PyNone == [t |-> "none"]
PyBool(b) == [t |-> "bool", b |-> b]
PyInt(n) == [t |-> "int", n |-> n]
PyFloat(tenths) == [t |-> "float", tenths |-> tenths]
\* The float -0.0: equal to 0.0 in every comparison, written with its sign.
NegativeZero == [t |-> "float", tenths |-> 0, negative |-> TRUE]
\* An int too large for the integers of the model, held as its digits.
PyBigInt(negative, digits) == [t |-> "int", negative |-> negative, digits |-> digits]
IsBigInt(v) == v.t = "int" /\ "digits" \in DOMAIN v
PyStr(glyphs) == [t |-> "str", s |-> glyphs]
PyList(elems) == [t |-> "list", elems |-> elems]
PyDict(items) == [t |-> "dict", items |-> items]
PyDatetimeAt(day, hour, minute, second, us, tz) ==
    [t |-> "datetime", day |-> day, hour |-> hour, minute |-> minute,
     second |-> second, us |-> us, tz |-> tz]
\* A datetime on the hour.
PyDatetime(day, hour, us, tz) == PyDatetimeAt(day, hour, 0, 0, us, tz)
\* The text of a str is a sequence of glyphs.  A glyph is a run of printable
\* ASCII characters other than the quote and the backslash, or one single
\* character of another kind: the quote, the backslash, TAB, NEWLINE, CR,
\* FORMFEED, or a character written by its code point, "U+" and four to six
\* upper-case hexadecimal digits.  Every other control character, the grave
\* accent (which no string of the model can hold) and every character
\* outside ASCII, a surrogate included, is written by its code point.  No
\* run spells a code point: a text of the characters "U+" and such digits
\* is held as two runs or more.
QUOTE == "\""
BACKSLASH == "\\"
NEWLINE == "\n"
TAB == "\t"
CR == "\r"
FORMFEED == "\f"
NONASCII == "U+00E9"
BACKSPACE == "U+0008"
CONTROL == "U+0001"

\* bool(v): Python truthiness.
Truthy(v) ==
    CASE v.t = "none" -> FALSE
      [] v.t = "bool" -> v.b
      [] v.t = "int" -> IsBigInt(v) \/ v.n # 0
      [] v.t = "float" -> v.tenths # 0
      [] v.t = "str" -> Len(v.s) > 0
      [] v.t = "list" -> Len(v.elems) > 0
      [] v.t = "dict" -> Len(v.items) > 0
      [] OTHER -> TRUE

\* hash(v) succeeds: lists and dicts are unhashable.
Hashable(v) == v.t \notin {"list", "dict"}

\* k in d, d[k] and d.get(k, default) of a dict given as its items in
\* insertion order (keys are unique).
HasKey(d, k) == \E i \in 1..Len(d.items) : d.items[i][1] = k
Item(d, k) == d.items[CHOOSE i \in 1..Len(d.items) : d.items[i][1] = k][2]
Get(d, k, default) == IF HasKey(d, k) THEN Item(d, k) ELSE default

\* The result of a call: the exception it raised ("none" when it returned)
\* and the value it returned.
Returns(v) == [exc |-> "none", val |-> v]
Raises(e) == [exc |-> e, val |-> PyNone]
\* An exception raised with a message: str(e) is the message.
RaisesMsg(e, msg) == [exc |-> e, val |-> PyStr(<<msg>>)]

\* The value of F at v, with v computed once.
With(v, F(_)) == CHOOSE y \in {F(x) : x \in {v}} : TRUE

\* Hexadecimal digits, and the value of one of either case (-1 for another
\* character).
HexLower == <<"0", "1", "2", "3", "4", "5", "6", "7", "8", "9", "a", "b", "c", "d", "e", "f">>
HexUpper == <<"0", "1", "2", "3", "4", "5", "6", "7", "8", "9", "A", "B", "C", "D", "E", "F">>
HexValue(c) ==
    CASE c = "0" -> 0 [] c = "1" -> 1 [] c = "2" -> 2 [] c = "3" -> 3 [] c = "4" -> 4
      [] c = "5" -> 5 [] c = "6" -> 6 [] c = "7" -> 7 [] c = "8" -> 8 [] c = "9" -> 9
      [] c = "a" \/ c = "A" -> 10 [] c = "b" \/ c = "B" -> 11 [] c = "c" \/ c = "C" -> 12
      [] c = "d" \/ c = "D" -> 13 [] c = "e" \/ c = "E" -> 14 [] c = "f" \/ c = "F" -> 15
      [] OTHER -> -1
RECURSIVE HexSum(_, _)
HexSum(t, n) ==
    IF n = 0 THEN 0 ELSE HexSum(t, n - 1) * 16 + HexValue(SubSeq(t, n, n))
\* The number written by the first n characters of t in hexadecimal, -1 when
\* one of them is no hexadecimal digit.
HexNumber(t, n) ==
    IF \E k \in 1..n : HexValue(SubSeq(t, k, k)) < 0 THEN -1 ELSE HexSum(t, n)
RECURSIVE HexText(_, _, _)
\* n in digits of the table, width digits at least.
HexText(n, width, table) ==
    IF n = 0 /\ width <= 0 THEN ""
    ELSE HexText(n \div 16, width - 1, table) \o table[(n % 16) + 1]

\* The glyph is a character written by its code point, and the code point.
IsCodePoint(g) ==
    /\ Len(g) \in 6..8
    /\ SubSeq(g, 1, 2) = "U+"
    /\ \A k \in 3..Len(g) :
           SubSeq(g, k, k) \in {"0", "1", "2", "3", "4", "5", "6", "7", "8", "9",
                               "A", "B", "C", "D", "E", "F"}
CodePoint(g) == HexNumber(SubSeq(g, 3, Len(g)), Len(g) - 2)
\* The printable characters of ASCII but the grave accent: U+0020 to U+005F
\* and U+0061 to U+007E.
Printable ==
    " !" \o QUOTE \o "#$%&'()*+,-./0123456789:;<=>?@ABCDEFGHIJKLMNOPQRSTUVWXYZ["
        \o BACKSLASH \o "]^_abcdefghijklmnopqrstuvwxyz{|}~"
\* chr(n): the glyph of the character whose code point is n.
chr(n) ==
    IF n = 9 THEN TAB
    ELSE IF n = 10 THEN NEWLINE
    ELSE IF n = 12 THEN FORMFEED
    ELSE IF n = 13 THEN CR
    ELSE IF n \in 32..95 THEN SubSeq(Printable, n - 31, n - 31)
    ELSE IF n \in 97..126 THEN SubSeq(Printable, n - 32, n - 32)
    ELSE "U+" \o HexText(n, 4, HexUpper)
\* Surrogates: U+D800 to U+DBFF lead a pair, U+DC00 to U+DFFF trail one.
IsHighSurrogate(g) == IsCodePoint(g) /\ CodePoint(g) \in 55296..56319
IsLowSurrogate(g) == IsCodePoint(g) /\ CodePoint(g) \in 56320..57343
IsSurrogate(g) == IsCodePoint(g) /\ CodePoint(g) \in 55296..57343
\* The character of a pair of surrogates.
JoinSurrogates(high, low) ==
    chr(65536 + (CodePoint(high) - 55296) * 1024 + (CodePoint(low) - 56320))

(***************************************************************************)
(* datetime.isoformat / datetime.fromisoformat.  The day of a datetime is  *)
(* counted from 2024-12-31, so that day 1 is the first of January 2025;    *)
(* tz is "naive", "utc" or the text of a fixed offset such as "+05:30".    *)
(***************************************************************************)
Days == 1..31
Hours == 0..23
Micros == {0, 1, 500000, 999999}

Pad2(n) == IF n < 10 THEN "0" \o ToString(n) ELSE ToString(n)
Pad4(n) ==
    IF n < 10 THEN "000" \o ToString(n)
    ELSE IF n < 100 THEN "00" \o ToString(n)
    ELSE IF n < 1000 THEN "0" \o ToString(n)
    ELSE ToString(n)
Pad6(n) ==
    IF n < 10 THEN "00000" \o ToString(n)
    ELSE IF n < 100 THEN "0000" \o ToString(n)
    ELSE IF n < 1000 THEN "000" \o ToString(n)
    ELSE IF n < 10000 THEN "00" \o ToString(n)
    ELSE IF n < 100000 THEN "0" \o ToString(n)
    ELSE ToString(n)

\* The proleptic Gregorian calendar of the datetime module.
is_leap(year) == year % 4 = 0 /\ (year % 100 # 0 \/ year % 400 = 0)
DaysInMonth == <<31, 28, 31, 30, 31, 30, 31, 31, 30, 31, 30, 31>>
DaysBeforeMonth == <<0, 31, 59, 90, 120, 151, 181, 212, 243, 273, 304, 334>>
days_in_month(year, month) ==
    IF month = 2 /\ is_leap(year) THEN 29 ELSE DaysInMonth[month]
days_before_year(year) ==
    (year - 1) * 365 + (year - 1) \div 4 - (year - 1) \div 100 + (year - 1) \div 400
days_before_month(year, month) ==
    DaysBeforeMonth[month] + (IF month > 2 /\ is_leap(year) THEN 1 ELSE 0)
\* date(year, month, day).toordinal()
ymd2ord(year, month, day) ==
    days_before_year(year) + days_before_month(year, month) + day
\* date.fromordinal(ordinal) as <<year, month, day>>.
ord2ymd(ordinal) ==
    With((ordinal - 1) % 146097, LAMBDA r400 :
    With(r400 % 36524, LAMBDA r100 :
    With(r100 % 1461, LAMBDA r4 :
    With(r4 % 365, LAMBDA n :
    With(((ordinal - 1) \div 146097) * 400 + 1 + (r400 \div 36524) * 100
             + (r100 \div 1461) * 4 + r4 \div 365, LAMBDA year :
    With(r4 \div 365 = 3 /\ (r100 \div 1461 # 24 \/ r400 \div 36524 = 3),
         LAMBDA leapyear :
    With((n + 50) \div 32, LAMBDA guess :
    With(DaysBeforeMonth[guess] + (IF guess > 2 /\ leapyear THEN 1 ELSE 0),
         LAMBDA before :
        IF r4 \div 365 = 4 \/ r400 \div 36524 = 4 THEN <<year - 1, 12, 31>>
        ELSE IF before > n
        THEN <<year, guess - 1,
               n - (before - (DaysInMonth[guess - 1]
                              + (IF guess - 1 = 2 /\ leapyear THEN 1 ELSE 0))) + 1>>
        ELSE <<year, guess, n - before + 1>>))))))))
\* The ordinal of the day before day 1.
Epoch == ymd2ord(2024, 12, 31)

\* The texts of the dates, hours and fractions that the clock of the model
\* produces, each computed once; any other one is computed when asked for.
DateTable == [day \in Days |-> "2025-01-" \o Pad2(day)]
TimeTable == [hour \in Hours |-> Pad2(hour) \o ":00:00"]
FracTable == [us \in Micros |-> "." \o Pad6(us)]
DateText(day) ==
    IF day \in Days THEN DateTable[day]
    ELSE With(ord2ymd(Epoch + day), LAMBDA ymd :
             Pad4(ymd[1]) \o "-" \o Pad2(ymd[2]) \o "-" \o Pad2(ymd[3]))
TimeText(hour) == TimeTable[hour]
FracText(us) == IF us \in Micros THEN FracTable[us] ELSE "." \o Pad6(us)
ClockText(dt) ==
    IF dt.minute = 0 /\ dt.second = 0 THEN TimeText(dt.hour)
    ELSE Pad2(dt.hour) \o ":" \o Pad2(dt.minute) \o ":" \o Pad2(dt.second)
UtcOffsetText == "+00:00"

\* datetime.isoformat(): the fraction is left out when microsecond is 0, the
\* offset when the datetime is naive.
isoformat(dt) ==
    PyStr(<<DateText(dt.day), "T", ClockText(dt)>>
          \o (IF dt.us # 0 THEN <<FracText(dt.us)>> ELSE <<>>)
          \o (IF dt.tz = "naive" THEN <<>>
              ELSE IF dt.tz = "utc" THEN <<UtcOffsetText>>
              ELSE <<dt.tz>>))

IsDateText(g) == \E d \in Days : DateTable[d] = g
IsTimeText(g) == \E h \in Hours : TimeTable[h] = g
IsFracText(g) == \E u \in Micros : FracTable[u] = g
ParseDate(g) == CHOOSE d \in Days : DateTable[d] = g
ParseTime(g) == CHOOSE h \in Hours : TimeTable[h] = g
ParseFrac(g) == CHOOSE u \in Micros : FracTable[u] = g

\* The characters of an ASCII text, and of a str, one element each.
Bytes(text) == [k \in 1..Len(text) |-> SubSeq(text, k, k)]
RECURSIVE Chars(_)
Chars(s) ==
    IF s = <<>> THEN <<>>
    ELSE (IF IsCodePoint(Head(s)) THEN <<Head(s)>> ELSE Bytes(Head(s))) \o Chars(Tail(s))
\* The bytes of a character in UTF-8, as C code scans them: a character of
\* ASCII is one byte, written as the character is, and NUL is ""; a
\* character outside ASCII is a lead byte, which tells how many bytes there
\* are, and one to three bytes that follow it.
LeadOfTwo == "0xC0"
LeadOfThree == "0xE0"
LeadOfFour == "0xF0"
Continuation == "0x80"
Utf8Char(c) ==
    IF ~IsCodePoint(c) THEN <<c>>
    ELSE IF CodePoint(c) = 0 THEN <<"">>
    ELSE IF CodePoint(c) < 128 THEN <<c>>
    ELSE IF CodePoint(c) < 2048 THEN <<LeadOfTwo, Continuation>>
    ELSE IF CodePoint(c) < 65536 THEN <<LeadOfThree, Continuation, Continuation>>
    ELSE <<LeadOfFour, Continuation, Continuation, Continuation>>
RECURSIVE Utf8(_)
Utf8(chars) ==
    IF chars = <<>> THEN <<>> ELSE Utf8Char(Head(chars)) \o Utf8(Tail(chars))
\* The bytes from the one given to the next character: the high bits of a
\* lead byte tell, and a byte that is no lead byte counts as the first of two.
CharWidth(byte) ==
    IF byte \notin {LeadOfTwo, LeadOfThree, LeadOfFour, Continuation} THEN 1
    ELSE IF byte = LeadOfThree THEN 3
    ELSE IF byte = LeadOfFour THEN 4
    ELSE 2
\* t[i] counted from 0; past the end it is "", the NUL that ends a C string.
At(t, i) == IF 0 <= i /\ i < Len(t) THEN t[i + 1] ELSE ""
Digits == <<"0", "1", "2", "3", "4", "5", "6", "7", "8", "9">>
IsDigit(c) == \E d \in 1..10 : Digits[d] = c
DigitValue(c) == (CHOOSE d \in 1..10 : Digits[d] = c) - 1

RECURSIVE parse_digits(_, _, _)
\* The number written by the n digits from offset p, -1 when one of them is
\* not a digit.
parse_digits(t, p, n) ==
    IF n <= 0 THEN 0
    ELSE IF ~IsDigit(At(t, p + n - 1)) THEN -1
    ELSE With(parse_digits(t, p, n - 1), LAMBDA head :
             IF head < 0 THEN -1 ELSE head * 10 + DigitValue(At(t, p + n - 1)))
RECURSIVE SkipDigits(_, _)
\* The offset of the first character from p on that is not a digit.
SkipDigits(t, p) == IF IsDigit(At(t, p)) THEN SkipDigits(t, p + 1) ELSE p

\* The length of the date at the head of the text, -1 when there is none:
\* YYYY-MM-DD, YYYYMMDD, YYYY-Www, YYYY-Www-D, YYYYWww or YYYYWwwD.
find_isoformat_datetime_separator(t) ==
    IF Len(t) = 7 THEN 7
    ELSE IF At(t, 4) = "-"
    THEN IF At(t, 5) = "W"
         THEN IF Len(t) > 8 /\ At(t, 8) = "-"
              THEN IF Len(t) = 9 THEN -1
                   ELSE IF Len(t) > 10 /\ IsDigit(At(t, 10)) THEN 8
                   ELSE 10
              ELSE 8
         ELSE 10
    ELSE IF At(t, 4) = "W"
    THEN With(SkipDigits(t, 7), LAMBDA idx :
             IF idx < 9 THEN idx
             ELSE IF idx % 2 = 0 THEN 7
             ELSE 8)
    ELSE 8

\* The ordinal of the day of an ISO week date, -1 when there is no such day.
iso_to_ymd(year, week, day) ==
    With(ymd2ord(year, 1, 1), LAMBDA first_day :
    With((first_day + 6) % 7, LAMBDA first_weekday :
    With(first_day - first_weekday + (IF first_weekday > 3 THEN 7 ELSE 0),
         LAMBDA week1_monday :
    With(week1_monday + (week - 1) * 7 + day - 1, LAMBDA ordinal :
        IF \/ week <= 0
           \/ week > 53
           \/ (week = 53 /\ ~(first_weekday = 3 \/ (first_weekday = 2 /\ is_leap(year))))
        THEN -1
        ELSE IF day <= 0 \/ day >= 8 THEN -1
        ELSE IF ordinal < 1 \/ ordinal > ymd2ord(9999, 12, 31) THEN -1
        ELSE ordinal))))
\* The ordinal of date(year, month, day), -1 when there is no such day.
new_date(year, month, day) ==
    IF month < 1 \/ month > 12 THEN -1
    ELSE IF day < 1 \/ day > days_in_month(year, month) THEN -1
    ELSE ymd2ord(year, month, day)
\* The ordinal of the date written in the first len characters, -1 when they
\* are not a date.
parse_isoformat_date(t, len) ==
    With(parse_digits(t, 0, 4), LAMBDA year :
    With(At(t, 4) = "-", LAMBDA uses_separator :
    With(IF uses_separator THEN 5 ELSE 4, LAMBDA p :
        IF year < 1 THEN -1
        ELSE IF At(t, p) = "W"
        THEN With(parse_digits(t, p + 1, 2), LAMBDA iso_week :
             With(IF p + 3 < len
                  THEN parse_digits(t, IF uses_separator THEN p + 4 ELSE p + 3, 1)
                  ELSE 1, LAMBDA iso_day :
                 IF iso_week < 0 THEN -1
                 ELSE IF p + 3 < len /\ uses_separator /\ At(t, p + 3) # "-" THEN -1
                 ELSE IF iso_day < 0 THEN -1
                 ELSE iso_to_ymd(year, iso_week, iso_day)))
        ELSE With(parse_digits(t, p, 2), LAMBDA month :
             With(parse_digits(t, IF uses_separator THEN p + 3 ELSE p + 2, 2),
                  LAMBDA day :
                 IF month < 0 THEN -1
                 ELSE IF uses_separator /\ At(t, p + 2) # "-" THEN -1
                 ELSE IF day < 0 THEN -1
                 ELSE new_date(year, month, day))))))

\* What the parse of a time gives: rv is -1 when the text is not a time, 1
\* when a character follows the part that was read, and 0 otherwise.
TimeOf(rv, vals, us) ==
    [rv |-> rv,
     hour |-> IF Len(vals) >= 1 THEN vals[1] ELSE 0,
     minute |-> IF Len(vals) >= 2 THEN vals[2] ELSE 0,
     second |-> IF Len(vals) >= 3 THEN vals[3] ELSE 0,
     us |-> us, tz |-> "naive"]
TimeError == TimeOf(-1, <<>>, 0)
Correction == <<100000, 10000, 1000, 100, 10>>
\* The fraction of a second from offset p up to p_end: six digits are read,
\* fewer are scaled, more are skipped.
parse_fraction(t, p_end, p, vals) ==
    With(IF p_end - p >= 6 THEN 6 ELSE p_end - p, LAMBDA to_parse :
    With(parse_digits(t, p, to_parse), LAMBDA microsecond :
        IF microsecond < 0 THEN TimeError
        ELSE TimeOf(IF At(t, SkipDigits(t, p + to_parse)) # "" THEN 1 ELSE 0,
                    vals,
                    IF to_parse \in 1..5 THEN microsecond * Correction[to_parse]
                    ELSE microsecond)))
RECURSIVE parse_hh_mm_ss_ff(_, _, _, _, _, _)
\* HH[:?MM[:?SS[{.,}ffffff]]] from offset p up to p_end: the i-th round of
\* the loop over hour, minute and second, then the fraction.
parse_hh_mm_ss_ff(t, p_end, i, p, has_separator, vals) ==
    IF i = 3 THEN parse_fraction(t, p_end, p, vals)
    ELSE With(parse_digits(t, p, 2), LAMBDA value :
         With(At(t, p + 2), LAMBDA c :
         With(IF i = 0 THEN c = ":" ELSE has_separator, LAMBDA separated :
         With(IF value < 0 THEN vals ELSE Append(vals, value), LAMBDA read :
             IF value < 0 THEN TimeError
             ELSE IF p + 3 >= p_end THEN TimeOf(IF c # "" THEN 1 ELSE 0, read, 0)
             ELSE IF c \in {".", ","} /\ ~(separated /\ c = ":")
             THEN parse_fraction(t, p_end, p + 3, read)
             ELSE IF ~separated \/ c = ":"
             THEN parse_hh_mm_ss_ff(t, p_end, i + 1,
                                    IF separated THEN p + 3 ELSE p + 2,
                                    separated, read)
             ELSE TimeError))))
RECURSIVE FindTz(_, _)
\* The offset of the first "Z", "+" or "-" from p on; the length when none.
FindTz(t, p) ==
    IF p >= Len(t) THEN Len(t)
    ELSE IF At(t, p) \in {"Z", "+", "-"} THEN p
    ELSE FindTz(t, p + 1)
\* The tz of an offset of the given sign: a zero offset is UTC, and one of a
\* day or more is refused (tz "").
OffsetText(sign, offset) ==
    LET seconds == offset.hour * 3600 + offset.minute * 60 + offset.second
    IN  IF seconds = 0 THEN "utc"
        ELSE IF seconds >= 86400 THEN ""
        ELSE sign \o Pad2(seconds \div 3600) \o ":" \o Pad2((seconds % 3600) \div 60)
             \o (IF seconds % 60 # 0 \/ offset.us # 0
                 THEN ":" \o Pad2(seconds % 60) ELSE "")
             \o (IF offset.us # 0 THEN "." \o Pad6(offset.us) ELSE "")
\* The time from offset start to the end of the text, with its offset.
parse_isoformat_time(t, start) ==
    With(FindTz(t, start), LAMBDA tzinfo_pos :
    With(parse_hh_mm_ss_ff(t, tzinfo_pos, 0, start, TRUE, <<>>), LAMBDA clock :
        IF start >= Len(t) \/ clock.rv < 0 THEN TimeError
        ELSE IF tzinfo_pos = Len(t)
        THEN IF clock.rv = 1 THEN TimeError ELSE clock
        ELSE IF At(t, tzinfo_pos) = "Z"
        THEN IF At(t, tzinfo_pos + 1) # "" THEN TimeError ELSE [clock EXCEPT !.tz = "utc"]
        ELSE With(parse_hh_mm_ss_ff(t, Len(t), 0, tzinfo_pos + 1, TRUE, <<>>),
                  LAMBDA offset :
             With(IF offset.rv # 0 THEN "" ELSE OffsetText(At(t, tzinfo_pos), offset),
                  LAMBDA tz :
                 IF tz = "" THEN TimeError
                 ELSE [clock EXCEPT !.rv = 0, !.tz = tz]))))
\* The separator of date and time can stand at one of these offsets, and a
\* surrogate is allowed there: the first one found is replaced by "T".
PotentialSeparators == <<7, 8, 10>>
sanitize_isoformat_str(chars) ==
    LET found == {k \in 1..3 : /\ PotentialSeparators[k] < Len(chars)
                                /\ IsSurrogate(chars[PotentialSeparators[k] + 1])}
    IN  IF found = {} THEN chars
        ELSE [chars EXCEPT
                 ![PotentialSeparators[CHOOSE k \in found : \A m \in found : k <= m] + 1] = "T"]
\* fromisoformat of a text that isoformat did not write, read by character:
\* a text of fewer than seven characters, or one that holds a surrogate
\* elsewhere than at the separator and so has no UTF-8 bytes, is refused.
parse_isoformat(s) ==
    With(sanitize_isoformat_str(Chars(s)), LAMBDA clean :
    With(Utf8(clean), LAMBDA t :
    With(find_isoformat_datetime_separator(t), LAMBDA separator_location :
        IF Len(clean) < 7 \/ (\E k \in 1..Len(clean) : IsSurrogate(clean[k]))
        THEN Raises("ValueError")
        ELSE IF separator_location < 0 THEN Raises("ValueError")
        ELSE With(parse_isoformat_date(t, separator_location), LAMBDA ordinal :
             With(IF Len(t) > separator_location
                  THEN parse_isoformat_time(t,
                           separator_location + CharWidth(At(t, separator_location)))
                  ELSE TimeOf(0, <<>>, 0), LAMBDA time :
                 IF ordinal < 0 \/ time.rv < 0 THEN Raises("ValueError")
                 ELSE IF time.hour > 23 \/ time.minute > 59 \/ time.second > 59
                 THEN Raises("ValueError")
                 ELSE Returns(PyDatetimeAt(ordinal - Epoch, time.hour, time.minute,
                                           time.second, time.us, time.tz)))))))

\* The text is one that isoformat writes for a day, an hour and a fraction of
\* the tables: a date alone, or a date, "T", a time, then a fraction, the
\* offset of UTC, both or neither.
FracAt(s) == IF Len(s) >= 4 /\ IsFracText(s[4]) THEN 1 ELSE 0
FromTables(s) ==
    \/ Len(s) = 1 /\ IsDateText(s[1])
    \/ /\ Len(s) \in 3..5
       /\ IsDateText(s[1])
       /\ s[2] = "T"
       /\ IsTimeText(s[3])
       /\ SubSeq(s, 4 + FracAt(s), Len(s)) \in {<<>>, <<UtcOffsetText>>}
\* datetime.fromisoformat(v): TypeError unless v is a str, ValueError unless
\* the text is a date, optionally followed by a separator, a time, a fraction
\* and an offset.  A date alone is midnight; a missing offset gives a naive
\* datetime.  The texts that isoformat writes for the days, hours and
\* fractions of the tables are looked up there.
fromisoformat(v) ==
    IF v.t # "str" THEN Raises("TypeError")
    ELSE IF ~FromTables(v.s) THEN parse_isoformat(v.s)
    ELSE IF Len(v.s) = 1 THEN Returns(PyDatetime(ParseDate(v.s[1]), 0, 0, "naive"))
    ELSE Returns(PyDatetime(ParseDate(v.s[1]), ParseTime(v.s[3]),
                            IF FracAt(v.s) = 1 THEN ParseFrac(v.s[4]) ELSE 0,
                            IF Len(v.s) = 3 + FracAt(v.s) THEN "naive" ELSE "utc"))

(***************************************************************************)
(* json.dumps / json.loads.  A JSON text is modelled by its parse tree;    *)
(* string texts carry the escaped glyphs.                                  *)
(***************************************************************************)
\* What json.dumps (ensure_ascii) writes for one character: the character
\* itself when it is a printable one of ASCII other than the quote and the
\* backslash, a short escape where JSON has one, and otherwise \u and the
\* four hexadecimal digits, in lower case, of the code point, or of each
\* surrogate of its pair when the code point is beyond U+FFFF.  A run of
\* characters that need no escape is written as it is, and any other text
\* character by character.
UEscape(n) == "\\u" \o HexText(n, 4, HexLower)
\* A text in which nothing is to escape, and in which json.loads finds
\* nothing to decode: a run without a quote, a backslash or a control
\* character.
PlainPiece(g) ==
    /\ g # ""
    /\ ~IsCodePoint(g)
    /\ \A k \in 1..Len(g) :
           SubSeq(g, k, k) \notin {QUOTE, BACKSLASH, TAB, NEWLINE, CR, FORMFEED}
RECURSIVE EscapeGlyph(_)
EscapeGlyph(g) ==
    CASE g = QUOTE -> "\\\""
      [] g = BACKSLASH -> "\\\\"
      [] g = NEWLINE -> "\\n"
      [] g = TAB -> "\\t"
      [] g = CR -> "\\r"
      [] g = FORMFEED -> "\\f"
      [] IsCodePoint(g) ->
             With(CodePoint(g), LAMBDA n :
                 IF chr(n) # g THEN EscapeGlyph(chr(n))
                 ELSE IF n = 8 THEN "\\b"
                 ELSE IF n \in 32..126 THEN g
                 ELSE IF n < 65536 THEN UEscape(n)
                 ELSE UEscape(55296 + (n - 65536) \div 1024)
                          \o UEscape(56320 + ((n - 65536) % 1024)))
      [] OTHER -> IF Len(g) <= 1 \/ PlainPiece(g) THEN g
                  ELSE EscapeGlyph(SubSeq(g, 1, 1)) \o EscapeGlyph(SubSeq(g, 2, Len(g)))
Escape(s) == [i \in 1..Len(s) |-> EscapeGlyph(s[i])]

\* An escape of a JSON string is a backslash and one of "\/bfnrt, or \u and
\* four hexadecimal digits of either case: this is one of the latter.
IsUEscape(g) ==
    Len(g) = 6 /\ SubSeq(g, 1, 2) = "\\u" /\ HexNumber(SubSeq(g, 3, 6), 4) >= 0
\* The character of an escape that is a backslash and one more character.
BackslashEscapes ==
    [c \in {QUOTE, BACKSLASH, "/", "b", "f", "n", "r", "t"} |->
        CASE c = "b" -> BACKSPACE
          [] c = "f" -> FORMFEED
          [] c = "n" -> NEWLINE
          [] c = "r" -> CR
          [] c = "t" -> TAB
          [] OTHER -> c]
\* What py_scanstring has read: a character, or a run of characters, that
\* stood in the text as it is, or the character of an escape.
Literal(g) == [escaped |-> FALSE, g |-> g]
Escaped(g) == [escaped |-> TRUE, g |-> g]
\* What was read so far and one character more: a character that stood as
\* it is goes to the run before it, unless the run would spell a code point.
AddChar(out, c) ==
    IF out # <<>> /\ ~out[Len(out)].escaped /\ ~IsCodePoint(out[Len(out)].g \o c)
    THEN [out EXCEPT ![Len(out)].g = @ \o c]
    ELSE Append(out, Literal(c))
RECURSIVE scan_escapes(_, _, _)
\* The characters of a piece of a JSON string from offset p on: an escape is
\* decoded, and a quote, a control character or a backslash that begins no
\* escape is refused.
scan_escapes(t, p, out) ==
    IF p > Len(t) THEN Returns(out)
    ELSE IF SubSeq(t, p, p) \in {QUOTE, TAB, NEWLINE, CR, FORMFEED}
    THEN Raises("JSONDecodeError")
    ELSE IF SubSeq(t, p, p) # BACKSLASH
    THEN scan_escapes(t, p + 1, AddChar(out, SubSeq(t, p, p)))
    ELSE With(IF p + 5 <= Len(t) /\ SubSeq(t, p + 1, p + 1) = "u"
              THEN SubSeq(t, p, p + 5)
              ELSE SubSeq(t, p, IF p + 1 <= Len(t) THEN p + 1 ELSE p), LAMBDA escape :
         IF IsUEscape(escape)
         THEN scan_escapes(t, p + 6,
                  Append(out, Escaped(chr(HexNumber(SubSeq(escape, 3, 6), 4)))))
         ELSE IF Len(escape) = 2 /\ SubSeq(escape, 2, 2) \in DOMAIN BackslashEscapes
         THEN scan_escapes(t, p + 2,
                  Append(out, Escaped(BackslashEscapes[SubSeq(escape, 2, 2)])))
         ELSE Raises("JSONDecodeError"))
\* One piece of a JSON string: a character written by its code point stands
\* in the text as it is, which a control character may not.
scan_piece(g) ==
    IF IsCodePoint(g)
    THEN IF CodePoint(g) < 32 THEN Raises("JSONDecodeError")
         ELSE Returns(<<Literal(chr(CodePoint(g)))>>)
    ELSE IF PlainPiece(g) THEN Returns(<<Literal(g)>>)
    ELSE scan_escapes(g, 1, <<>>)
RECURSIVE scan_pieces(_, _, _)
scan_pieces(txt, i, out) ==
    IF i > Len(txt) THEN Returns(out)
    ELSE With(scan_piece(txt[i]), LAMBDA read :
             IF read.exc # "none" THEN read
             ELSE scan_pieces(txt, i + 1, out \o read.val))
\* A glyph that is a run of characters.
IsRun(g) == g \notin {QUOTE, BACKSLASH, TAB, NEWLINE, CR, FORMFEED} /\ ~IsCodePoint(g)
RECURSIVE join_surrogates(_, _, _)
\* The glyphs of what was read.  The escape of a surrogate that leads a pair
\* and, directly after it, the escape of one that trails a pair are one
\* character; the character of an escape that could have stood in a run
\* goes to the run before it, and the run after it goes to it, unless the
\* run would spell a code point.
join_surrogates(read, i, out) ==
    IF i > Len(read) THEN out
    ELSE IF /\ i < Len(read)
            /\ read[i].escaped /\ IsHighSurrogate(read[i].g)
            /\ read[i + 1].escaped /\ IsLowSurrogate(read[i + 1].g)
    THEN join_surrogates(read, i + 2, Append(out, JoinSurrogates(read[i].g, read[i + 1].g)))
    ELSE IF /\ i > 1 /\ out # <<>>
            /\ read[i].escaped \/ read[i - 1].escaped
            /\ IsRun(read[i].g) /\ IsRun(read[i - 1].g) /\ IsRun(out[Len(out)])
            /\ ~IsCodePoint(out[Len(out)] \o read[i].g)
    THEN join_surrogates(read, i + 1, [out EXCEPT ![Len(out)] = @ \o read[i].g])
    ELSE join_surrogates(read, i + 1, Append(out, read[i].g))
RECURSIVE Regroup(_)
\* The pieces of a text with every piece joined to the one before it, but
\* for a character written by its code point and for two pieces that would
\* together spell one: an escape that lay across two pieces lies within one.
Regroup(txt) ==
    IF txt = <<>> THEN <<>>
    ELSE With(Regroup(Tail(txt)), LAMBDA rest :
             IF \/ IsCodePoint(Head(txt)) \/ rest = <<>> \/ IsCodePoint(Head(rest))
                \/ IsCodePoint(Head(txt) \o Head(rest))
             THEN <<Head(txt)>> \o rest
             ELSE <<Head(txt) \o Head(rest)>> \o Tail(rest))
\* py_scanstring: the text of a JSON string, given as its pieces.  The text
\* is read piece by piece, and from its pieces joined when a piece by itself
\* cannot be read.
Unescape(txt) ==
    IF \A i \in 1..Len(txt) : PlainPiece(txt[i]) THEN Returns(txt)
    ELSE With(scan_pieces(txt, 1, <<>>), LAMBDA read :
         With(IF read.exc = "none" THEN read ELSE scan_pieces(Regroup(txt), 1, <<>>),
              LAMBDA again :
                  IF again.exc # "none" THEN again
                  ELSE Returns(join_surrogates(again.val, 1, <<>>))))

\* The key of a dict, and the text of a key between its quotes in a JSON
\* text, is a text.  A character that the strings of the model hold stands
\* in it as itself; any other character is written as a backslash, "U+" and
\* the six upper-case hexadecimal digits of its code point, and so is a
\* backslash that stands before "U+" and six such digits.  The keys that
\* to_dict writes need no escape.
StoredKeys ==
    {"session_id", "session_type", "duration_minutes", "task_description",
     "start_time", "end_time", "completed", "interruptions"}
KeyChar(n) == BACKSLASH \o "U+" \o HexText(n, 6, HexUpper)
\* A character written by its code point stands at offset p of the text.
IsKeyChar(key, p) ==
    /\ p + 8 <= Len(key)
    /\ SubSeq(key, p, p) = BACKSLASH
    /\ IsCodePoint(SubSeq(key, p + 1, p + 8))
RECURSIVE KeyGlyphs(_, _)
\* The characters of a text from offset p on, a glyph each.
KeyGlyphs(key, p) ==
    IF p > Len(key) THEN <<>>
    ELSE IF IsKeyChar(key, p)
    THEN <<chr(CodePoint(SubSeq(key, p + 1, p + 8)))>> \o KeyGlyphs(key, p + 9)
    ELSE <<SubSeq(key, p, p)>> \o KeyGlyphs(key, p + 1)
RECURSIVE KeyText(_)
\* The text that the glyphs, or the pieces of a JSON string, make.
KeyText(glyphs) ==
    IF glyphs = <<>> THEN ""
    ELSE With(KeyText(Tail(glyphs)), LAMBDA rest :
         With(Head(glyphs), LAMBDA g :
             IF IsCodePoint(g) THEN KeyChar(CodePoint(g)) \o rest
             ELSE IF /\ g # "" /\ SubSeq(g, Len(g), Len(g)) = BACKSLASH
                     /\ IsKeyChar(BACKSLASH \o rest, 1)
             THEN SubSeq(g, 1, Len(g) - 1) \o KeyChar(92) \o rest
             ELSE g \o rest))
\* What json.dumps writes for a key: each of its characters is escaped as the
\* characters of every string are.
EscapeKey(key) ==
    IF key \in StoredKeys THEN key ELSE KeyText(Escape(KeyGlyphs(key, 1)))
\* The key that json.loads reads from the text between the quotes: Returns
\* of the key, or the error.
UnescapeKey(key) ==
    IF key \in StoredKeys THEN Returns(key)
    ELSE With(Unescape(KeyGlyphs(key, 1)), LAMBDA read :
             IF read.exc # "none" THEN read ELSE Returns(KeyText(read.val)))

JNull == [j |-> "null"]
JTrue == [j |-> "true"]
JFalse == [j |-> "false"]
JNumber(n) == [j |-> "number", lit |-> n]
JReal(tenths) == [j |-> "real", lit10 |-> tenths]
\* The text -0.0
JNegativeZero == [j |-> "real", lit10 |-> 0, negative |-> TRUE]
JString(txt) == [j |-> "string", txt |-> txt]
JArray(arr) == [j |-> "array", arr |-> arr]
JObject(members) == [j |-> "object", members |-> members]

\* json.dumps of a scalar.
DumpScalar(v) ==
    CASE v.t = "none" -> JNull
      [] v.t = "bool" -> IF v.b THEN JTrue ELSE JFalse
      [] v.t = "int" -> JNumber(v.n)
      [] v.t = "float" -> IF v = NegativeZero THEN JNegativeZero ELSE JReal(v.tenths)
      [] v.t = "str" -> JString(Escape(v.s))
\* What stands for the value of a text that json.loads refuses.
Undecodable == [t |-> "undecodable"]
\* json.loads of a scalar.
LoadScalar(j) ==
    CASE j.j = "null" -> PyNone
      [] j.j = "true" -> PyBool(TRUE)
      [] j.j = "false" -> PyBool(FALSE)
      [] j.j = "number" -> PyInt(j.lit)
      [] j.j = "real" -> IF j = JNegativeZero THEN NegativeZero ELSE PyFloat(j.lit10)
      [] j.j = "string" -> With(Unescape(j.txt), LAMBDA read :
                               IF read.exc # "none" THEN Undecodable ELSE PyStr(read.val))

IsScalar(v) == v.t \in {"none", "bool", "int", "float", "str"}
RECURSIVE Serializable(_)
\* json.dumps raises TypeError on a value it cannot serialize: a datetime,
\* alone or anywhere inside a list or a dict.
Serializable(v) ==
    \/ IsScalar(v)
    \/ v.t = "list" /\ \A i \in 1..Len(v.elems) : Serializable(v.elems[i])
    \/ v.t = "dict" /\ \A i \in 1..Len(v.items) : Serializable(v.items[i][2])

RECURSIVE json_dumps(_)
\* json.dumps(v, separators=(',', ':')): members keep the dict's order, and
\* their keys are escaped as every string is.
json_dumps(v) ==
    IF v.t = "dict"
    THEN JObject([i \in 1..Len(v.items) |->
                     <<EscapeKey(v.items[i][1]), json_dumps(v.items[i][2])>>])
    ELSE IF v.t = "list"
    THEN JArray([i \in 1..Len(v.elems) |-> json_dumps(v.elems[i])])
    ELSE DumpScalar(v)
\* The members of an object whose key no earlier member has, and for a key
\* the last member that has it.
FirstOfKey(members) ==
    SelectSeq([i \in 1..Len(members) |-> i],
              LAMBDA i : \A k \in 1..(i - 1) : members[k][1] # members[i][1])
LastOfKey(members, key) ==
    CHOOSE i \in 1..Len(members) :
        /\ members[i][1] = key
        /\ \A k \in (i + 1)..Len(members) : members[k][1] # key
RECURSIVE json_value(_)
\* The value of a JSON text: each member of an object is stored into the
\* dict under its key, so a key written twice stays where it was first and
\* holds the value written last.
json_value(j) ==
    IF j.j = "object"
    THEN With([i \in 1..Len(j.members) |->
                  <<UnescapeKey(j.members[i][1]), json_value(j.members[i][2])>>],
              LAMBDA read :
                  IF \E i \in 1..Len(read) : read[i][1].exc # "none" \/ read[i][2] = Undecodable
                  THEN Undecodable
                  ELSE With([i \in 1..Len(read) |-> <<read[i][1].val, read[i][2]>>],
                            LAMBDA members :
                      IF Cardinality({members[i][1] : i \in 1..Len(members)}) = Len(members)
                      THEN PyDict(members)
                      ELSE PyDict([n \in 1..Len(FirstOfKey(members)) |->
                                      <<members[FirstOfKey(members)[n]][1],
                                        members[LastOfKey(members,
                                                    members[FirstOfKey(members)[n]][1])][2]>>])))
    ELSE IF j.j = "array"
    THEN With([i \in 1..Len(j.arr) |-> json_value(j.arr[i])], LAMBDA elems :
             IF \E i \in 1..Len(elems) : elems[i] = Undecodable THEN Undecodable
             ELSE PyList(elems))
    ELSE LoadScalar(j)
\* json.loads(text): JSONDecodeError for a text with a string that has a
\* control character, a quote or a backslash that begins no escape.
json_loads(j) ==
    With(json_value(j), LAMBDA value :
        IF value = Undecodable THEN Raises("JSONDecodeError") ELSE Returns(value))

\* The lines of a text file.
JsonLine(doc) == [kind |-> "json", doc |-> doc]
\* A line that is not JSON, a line of whitespace only and a line holding bytes
\* that are not UTF-8, each of the given length.
TextLine(bytes) == [kind |-> "text", bytes |-> bytes]
BlankLine(bytes) == [kind |-> "blank", bytes |-> bytes]
UndecodableLine(bytes) == [kind |-> "undecodable", bytes |-> bytes]
\* What a write that was cut short leaves at the end of the file: bytes with
\* no newline after them; whole holds the JSON value when they are the
\* complete text of one, and is empty otherwise.
PartialLine(bytes, whole) == [kind |-> "partial", bytes |-> bytes, whole |-> whole]

RECURSIVE SumTo(_, _)
\* f[1] + ... + f[n], by halves.
SumTo(f, n) ==
    IF n = 0 THEN 0
    ELSE IF n = 1 THEN f[1]
    ELSE SumTo(f, n \div 2)
             + SumTo([i \in 1..(n - n \div 2) |-> f[n \div 2 + i]], n - n \div 2)
\* The length of repr(x) for a float of one decimal: the sign (-0.0 has
\* one), the digits of the whole part (at least "0"), the point and the
\* decimal.
RealLen(x) ==
    IF x.tenths < 0 THEN 1 + Len(ToString((-x.tenths) \div 10)) + 2
    ELSE (IF x = NegativeZero THEN 1 ELSE 0) + Len(ToString(x.tenths \div 10)) + 2
\* The bytes of a piece of a JSON string: a character written by its code
\* point stands in the text as its bytes in UTF-8.
PieceBytes(g) == IF IsCodePoint(g) THEN Len(Utf8Char(g)) ELSE Len(g)
\* The length of the text of a JSON scalar.
ScalarLen(j) ==
    CASE j.j = "null" -> 4
      [] j.j = "true" -> 4
      [] j.j = "false" -> 5
      [] j.j = "number" -> Len(ToString(j.lit))
      [] j.j = "real" -> RealLen(LoadScalar(j))
      [] j.j = "string" -> 2 + SumTo([i \in 1..Len(j.txt) |-> PieceBytes(j.txt[i])],
                                     Len(j.txt))
Commas(n) == IF n = 0 THEN 0 ELSE n - 1
\* The bytes of the text of a key between its quotes.
KeyBytes(key) ==
    IF key \in StoredKeys THEN Len(key)
    ELSE With(KeyGlyphs(key, 1), LAMBDA glyphs :
             SumTo([i \in 1..Len(glyphs) |-> PieceBytes(glyphs[i])], Len(glyphs)))
RECURSIVE TextLen(_)
\* The length of the text of a JSON value: brackets, commas, and for each
\* member of an object its key as written, the quotes and the colon.
TextLen(j) ==
    IF j.j = "object"
    THEN 2 + Commas(Len(j.members))
           + SumTo([i \in 1..Len(j.members) |->
                       KeyBytes(j.members[i][1]) + 3 + TextLen(j.members[i][2])],
                   Len(j.members))
    ELSE IF j.j = "array"
    THEN 2 + Commas(Len(j.arr)) + SumTo([i \in 1..Len(j.arr) |-> TextLen(j.arr[i])], Len(j.arr))
    ELSE ScalarLen(j)
\* st_size of the file: every line and its newline.
LineBytes(line) == IF line.kind = "json" THEN TextLen(line.doc) ELSE line.bytes
StoredBytes(line) == IF line.kind = "partial" THEN line.bytes ELSE LineBytes(line) + 1
FileSize(lines) == SumTo([i \in 1..Len(lines) |-> StoredBytes(lines[i])], Len(lines))

(***************************************************************************)
(* utils/session_manager.py                                                *)
(***************************************************************************)
\* The clock: datetime.now(timezone.utc) at the given tick.  Two ticks make
\* an hour, so that readings with and without microseconds both occur.
utcnow(tick) == PyDatetime(15, 10 + (tick \div 2), (tick % 2) * 500000, "utc")

\* generate_session_id(): the n-th uuid4 drawn.
generate_session_id(n) == PyStr(<<"uuid-" \o ToString(n)>>)

\* PomodoroSession.__init__
PomodoroSession(session_type, duration, task_description, uuid, now) ==
    [session_id |-> generate_session_id(uuid),
     session_type |-> session_type,
     duration_minutes |-> duration,
     task_description |-> task_description,
     start_time |-> now,
     end_time |-> PyNone,
     completed |-> PyBool(FALSE),
     interruptions |-> PyInt(0)]

\* PomodoroSession.to_dict
to_dict(self) ==
    PyDict(<< <<"session_id", self.session_id>>,
              <<"session_type", self.session_type>>,
              <<"duration_minutes", self.duration_minutes>>,
              <<"task_description", self.task_description>>,
              <<"start_time", isoformat(self.start_time)>>,
              <<"end_time", IF Truthy(self.end_time)
                            THEN isoformat(self.end_time) ELSE PyNone>>,
              <<"completed", self.completed>>,
              <<"interruptions", self.interruptions>> >>)

\* from_dict without the statement that restores end_time.
from_dict_NoEndTime(data, uuid, now) ==
    IF data.t # "dict" THEN Raises("TypeError")
    ELSE IF \E k \in {"session_type", "duration_minutes", "session_id", "start_time"} :
               ~HasKey(data, k)
    THEN Raises("KeyError")
    ELSE With(fromisoformat(Item(data, "start_time")), LAMBDA start :
             IF start.exc # "none" THEN start
             ELSE Returns([PomodoroSession(Item(data, "session_type"),
                                           Item(data, "duration_minutes"),
                                           Get(data, "task_description", PyStr(<<>>)),
                                           uuid, now) EXCEPT
                      !.session_id = Item(data, "session_id"),
                      !.start_time = start.val,
                      !.completed = Get(data, "completed", PyBool(FALSE)),
                      !.interruptions = Get(data, "interruptions", PyInt(0))]))

\* PomodoroSession.from_dict: the statements in order; the first one that
\* raises decides the result.
from_dict(data, uuid, now) ==
    IF data.t # "dict" THEN Raises("TypeError")
    ELSE IF ~HasKey(data, "session_type") \/ ~HasKey(data, "duration_minutes")
    THEN Raises("KeyError")
    ELSE IF ~HasKey(data, "session_id") \/ ~HasKey(data, "start_time")
    THEN Raises("KeyError")
    ELSE With(fromisoformat(Item(data, "start_time")), LAMBDA start :
         With(IF start.exc = "none" /\ Truthy(Get(data, "end_time", PyNone))
              THEN fromisoformat(Item(data, "end_time"))
              ELSE Returns(PyNone), LAMBDA end :
             IF start.exc # "none" THEN start
             ELSE IF end.exc # "none" THEN end
             ELSE Returns([PomodoroSession(Item(data, "session_type"),
                                           Item(data, "duration_minutes"),
                                           Get(data, "task_description", PyStr(<<>>)),
                                           uuid, now) EXCEPT
                      !.session_id = Item(data, "session_id"),
                      !.start_time = start.val,
                      !.end_time = end.val,
                      !.completed = Get(data, "completed", PyBool(FALSE)),
                      !.interruptions = Get(data, "interruptions", PyInt(0))])))

\* validate_session_type: membership in a set hashes the value first.
ValidTypes == {PyStr(<<"work">>), PyStr(<<"short_break">>), PyStr(<<"long_break">>)}
validate_session_type(session_type) ==
    IF ~Hashable(session_type) THEN Raises("TypeError")
    ELSE Returns(PyBool(session_type \in ValidTypes))

\* x <= 0 and x < 0 are defined for bool, int and float and raise TypeError
\* for every other value; Number is the value in tenths.
Orderable(v) == v.t \in {"bool", "int", "float"}
Number(v) ==
    CASE v.t = "bool" -> (IF v.b THEN 10 ELSE 0)
      [] v.t = "int" -> 10 * v.n
      [] v.t = "float" -> v.tenths

\* PomodoroSession.validate
validate(self) ==
    IF validate_session_type(self.session_type).exc # "none"
    THEN validate_session_type(self.session_type)
    ELSE IF ~validate_session_type(self.session_type).val.b THEN Returns(PyBool(FALSE))
    ELSE IF ~Orderable(self.duration_minutes) THEN Raises("TypeError")
    ELSE IF Number(self.duration_minutes) <= 0 THEN Returns(PyBool(FALSE))
    ELSE IF ~Orderable(self.interruptions) THEN Raises("TypeError")
    ELSE IF Number(self.interruptions) < 0 THEN Returns(PyBool(FALSE))
    ELSE Returns(PyBool(TRUE))

\* complete_session that sets the flag and leaves end_time as it is.
complete_session_FlagOnly(self, now) ==
    [self EXCEPT !.completed = PyBool(TRUE)]

\* complete_session that stamps end_time on the first call only.
complete_session_FirstCallOnly(self, now) ==
    IF self.end_time # PyNone THEN self
    ELSE [self EXCEPT !.completed = PyBool(TRUE), !.end_time = now]

\* PomodoroSession.complete_session
complete_session(self, now) ==
    [self EXCEPT !.completed = PyBool(TRUE), !.end_time = now]

\* PomodoroSession.add_interruption
add_interruption(self) ==
    [self EXCEPT !.interruptions = PyInt(self.interruptions.n + 1)]

(***************************************************************************)
(* utils/logger.py                                                         *)
(***************************************************************************)
\* create_log_entry: one line of compact JSON.
create_log_entry(session) == JsonLine(json_dumps(to_dict(session)))

\* parse_log_entry: any exception of json.loads or from_dict gives None.
parse_log_entry(log_line, uuid, now) ==
    IF log_line.kind # "json" /\ ~(log_line.kind = "partial" /\ log_line.whole # <<>>)
    THEN PyNone
    ELSE With(json_loads(IF log_line.kind = "json" THEN log_line.doc
                         ELSE log_line.whole[1]), LAMBDA data :
         With(IF data.exc # "none" THEN data ELSE from_dict(data.val, uuid, now),
              LAMBDA made : IF made.exc # "none" THEN PyNone ELSE made.val))

\* seq[start:] of Python, for any integer start.
SliceFrom(seq, start) ==
    LET n == Len(seq)
        from == IF start < 0 THEN (IF n + start < 0 THEN 0 ELSE n + start)
                ELSE (IF start > n THEN n ELSE start)
    IN  SubSeq(seq, from + 1, n)

Reverse(seq) == [i \in 1..Len(seq) |-> seq[Len(seq) + 1 - i]]

\* The loop of read_sessions over the chosen lines: blank lines and lines
\* that parse to None are left out.
ParseAll(chosen, uuid, now) ==
    SelectSeq([i \in 1..Len(chosen) |->
                  IF chosen[i].kind = "blank" THEN PyNone
                  ELSE parse_log_entry(chosen[i], uuid, now)],
              LAMBDA made : made # PyNone)

\* What the environment does to a call: "ok", or the step that fails.
\*   stat_denied   os.stat on the path raises PermissionError
\*   open_denied   open() raises PermissionError
\*   disk_full     the write raises OSError once the file system has taken
\*                 as many bytes as it has room for
\*   mkdir_denied  mkdir raises PermissionError
\*   rename_denied rename raises PermissionError
IoOutcomes == {"ok", "stat_denied", "open_denied", "disk_full", "mkdir_denied", "rename_denied"}

\* Path.exists(): False for a missing file; a PermissionError of os.stat is
\* not among the errors it ignores and is raised to the caller.
path_exists(exists, io) ==
    IF io = "stat_denied" THEN Raises("PermissionError") ELSE Returns(PyBool(exists))

\* f.readlines() of a file opened with encoding='utf-8': the whole file is
\* decoded, so one undecodable line raises UnicodeDecodeError.
readlines(lines, io) ==
    IF io = "open_denied" THEN Raises("PermissionError")
    ELSE IF \E i \in 1..Len(lines) : lines[i].kind = "undecodable"
    THEN Raises("UnicodeDecodeError")
    ELSE Returns(lines)

\* read_sessions without reversed(): the chosen lines in file order.
read_sessions_FileOrder(exists, lines, limit, io, uuid, now) ==
    IF io = "stat_denied" THEN Raises("PermissionError")
    ELSE IF ~exists \/ readlines(lines, io).exc # "none" THEN Returns(<<>>)
    ELSE Returns(ParseAll(IF Len(lines) > limit THEN SliceFrom(lines, -limit) ELSE lines,
                          uuid, now))

\* SessionLogger.read_sessions: the exists() test is outside the try block.
DefaultLimit == 100
read_sessions(exists, lines, limit, io, uuid, now) ==
    LET there == path_exists(exists, io)
        got == readlines(lines, io)
        recent_lines == IF Len(got.val) > limit THEN SliceFrom(got.val, -limit)
                        ELSE got.val
    IN  IF there.exc # "none" THEN Raises(there.exc)
        ELSE IF ~there.val.b THEN Returns(<<>>)
        ELSE IF got.exc # "none" THEN Returns(<<>>)
        ELSE Returns(ParseAll(Reverse(recent_lines), uuid, now))

\* The file after the first taken bytes of an entry and its newline were
\* written at its end.  Bytes written after a partial line continue it, and
\* the line they make is not JSON.
file_write(lines, entry, taken) ==
    LET complete == taken > LineBytes(entry)
        piece == IF complete THEN entry
                 ELSE PartialLine(taken, IF taken = LineBytes(entry) THEN <<entry.doc>>
                                         ELSE <<>>)
    IN  IF taken = 0 THEN lines
        ELSE IF lines # <<>> /\ lines[Len(lines)].kind = "partial"
        THEN [lines EXCEPT ![Len(lines)] =
                 IF complete THEN TextLine(@.bytes + LineBytes(entry))
                 ELSE PartialLine(@.bytes + taken, <<>>)]
        ELSE Append(lines, piece)

\* log_session opening the file for writing rather than for append: the file
\* is emptied before the entry is written.
log_session_Truncating(exists, lines, session, io, room) ==
    IF ~Serializable(to_dict(session)) \/ io \in {"open_denied", "mkdir_denied"}
    THEN [ok |-> FALSE, exists |-> exists, lines |-> lines]
    ELSE IF io = "disk_full" /\ room <= LineBytes(create_log_entry(session))
    THEN [ok |-> FALSE, exists |-> TRUE,
          lines |-> file_write(<<>>, create_log_entry(session), room)]
    ELSE [ok |-> TRUE, exists |-> TRUE, lines |-> <<create_log_entry(session)>>]

\* SessionLogger.log_session: the value returned and the file after the call.
\* open(path, 'a') creates a missing file, unless the directory is missing
\* too.  A write that fails has put into the file the bytes there was room
\* for: none, or the beginning of the entry, or all of it but the newline.
log_session(exists, lines, session, io, room) ==
    IF ~Serializable(to_dict(session)) \/ io \in {"open_denied", "mkdir_denied"}
    THEN [ok |-> FALSE, exists |-> exists, lines |-> lines]
    ELSE IF io = "disk_full" /\ room <= LineBytes(create_log_entry(session))
    THEN [ok |-> FALSE, exists |-> TRUE,
          lines |-> file_write(lines, create_log_entry(session), room)]
    ELSE [ok |-> TRUE, exists |-> TRUE,
          lines |-> file_write(lines, create_log_entry(session),
                               LineBytes(create_log_entry(session)) + 1)]

\* write(2) on a descriptor opened with O_APPEND, as open(path, 'a') opens
\* it: the data goes to the end of the file as it is at the write, wherever
\* the descriptor stood.
os_write_AtOffset(lines, at, data) ==
    IF at < Len(lines) THEN [lines EXCEPT ![at + 1] = data] ELSE Append(lines, data)

os_write(lines, at, data) == file_write(lines, data, LineBytes(data) + 1)

\* SessionLogger.ensure_log_directory
ensure_log_directory(io) == Returns(PyBool(io # "mkdir_denied"))

\* rotate_log_if_needed rotating a file of exactly the threshold size too.
rotate_log_if_needed_AtThreshold(exists, lines, old, io) ==
    LET keep == [exists |-> exists, lines |-> lines, old |-> old]
    IN  IF io = "stat_denied" THEN [res |-> Raises("PermissionError")] @@ keep
        ELSE IF ~exists THEN [res |-> Returns(PyBool(TRUE))] @@ keep
        ELSE IF FileSize(lines) >= 10 * 1024 * 1024
        THEN IF io = "rename_denied"
             THEN [res |-> Returns(PyBool(FALSE))] @@ keep
             ELSE [res |-> Returns(PyBool(TRUE)), exists |-> FALSE, lines |-> <<>>,
                   old |-> [exists |-> TRUE, lines |-> lines]]
        ELSE [res |-> Returns(PyBool(TRUE))] @@ keep

\* pathlib: a path is the sequence of its characters.  name is what follows
\* the last '/', suffix what starts at the last '.' of the name when that dot
\* is neither its first nor its last character, and with_suffix replaces the
\* suffix of the name, or appends to a name that has none.
LastIndexOf(chars, ch) ==
    IF \E i \in 1..Len(chars) : chars[i] = ch
    THEN CHOOSE i \in 1..Len(chars) :
             chars[i] = ch /\ \A j \in (i + 1)..Len(chars) : chars[j] # ch
    ELSE 0
path_name(path) == SubSeq(path, LastIndexOf(path, "/") + 1, Len(path))
path_suffix(path) ==
    IF 1 < LastIndexOf(path_name(path), ".")
       /\ LastIndexOf(path_name(path), ".") < Len(path_name(path))
    THEN SubSeq(path_name(path), LastIndexOf(path_name(path), "."), Len(path_name(path)))
    ELSE <<>>
with_suffix(path, suffix) == SubSeq(path, 1, Len(path) - Len(path_suffix(path))) \o suffix

\* backup_path of rotate_log_if_needed, line 119
backup_path(path) == with_suffix(path, <<".", "l", "o", "g", ".", "o", "l", "d">>)

\* Config.get_log_settings: the path when LOG_FILE_PATH is not set, and other
\* paths it may be set to.
DefaultLogPath == <<"l", "o", "g", "s", "/", "p", "o", "m", "o", "d", "o", "r", "o", "_", "s", "e", "s", "s", "i", "o", "n", "s", ".", "l", "o", "g">>
LogPaths ==
    {DefaultLogPath, <<"d", "a", "t", "a", ".", "t", "x", "t">>, <<"j", "o", "u", "r", "n", "a", "l">>, <<"l", "o", "g", "s", ".", "d", "/", "a", ".", "b", ".", "l", "o", "g">>}

\* SessionLogger.rotate_log_if_needed: the result, the log and the rotated
\* file after the call.  The exists() test is outside the try block.
RotateThreshold == 10 * 1024 * 1024
rotate_log_if_needed(exists, lines, old, io) ==
    LET there == path_exists(exists, io)
        keep == [exists |-> exists, lines |-> lines, old |-> old]
    IN  IF there.exc # "none" THEN [res |-> Raises(there.exc)] @@ keep
        ELSE IF ~there.val.b THEN [res |-> Returns(PyBool(TRUE))] @@ keep
        ELSE IF FileSize(lines) > RotateThreshold
        THEN IF io = "rename_denied"
             THEN [res |-> Returns(PyBool(FALSE))] @@ keep
             ELSE [res |-> Returns(PyBool(TRUE)), exists |-> FALSE, lines |-> <<>>,
                   old |-> [exists |-> TRUE, lines |-> lines]]
        ELSE [res |-> Returns(PyBool(TRUE))] @@ keep

\* read_sessions_by_date filtering every line of the file.
read_sessions_by_date_WholeFile(exists, lines, target_date, io, uuid, now) ==
    LET all_sessions == read_sessions(exists, lines, Len(lines) + 1, io, uuid, now)
    IN  IF all_sessions.exc # "none" THEN all_sessions
        ELSE Returns(SelectSeq(all_sessions.val,
                               LAMBDA s : s.start_time.day = target_date))

\* SessionLogger.read_sessions_by_date
DateFilterLimit == 1000
read_sessions_by_date(exists, lines, target_date, io, uuid, now) ==
    LET all_sessions == read_sessions(exists, lines, DateFilterLimit, io, uuid, now)
    IN  IF all_sessions.exc # "none" THEN all_sessions
        ELSE Returns(SelectSeq(all_sessions.val,
                               LAMBDA s : s.start_time.day = target_date))

(***************************************************************************)
(* app.py                                                                  *)
(***************************************************************************)
\* validate_session_request.  The caller passes request_data or {}.
validate_session_request(request_data) ==
    IF ~Truthy(request_data) THEN RaisesMsg("ValueError", "Request data is required")
    ELSE IF request_data.t # "dict" THEN Raises("AttributeError")
    ELSE LET session_type == Get(request_data, "session_type", PyNone)
             valid == validate_session_type(session_type)
             duration == Get(request_data, "duration_minutes", PyNone)
         IN  IF ~Truthy(session_type) THEN RaisesMsg("ValueError", "Invalid session type")
             ELSE IF valid.exc # "none" THEN valid
             ELSE IF ~valid.val.b THEN RaisesMsg("ValueError", "Invalid session type")
             ELSE IF \/ ~Truthy(duration)
                     \/ duration.t \notin {"int", "bool"}
                     \/ (duration.t = "int" /\ duration.n <= 0)
             THEN RaisesMsg("ValueError", "Invalid duration")
             ELSE Returns(request_data)

\* create_session, lines 172-181: the session built from the validated data.
build_session(data, uuid, now, later) ==
    LET made == PomodoroSession(Item(data, "session_type"),
                                Item(data, "duration_minutes"),
                                Get(data, "task_description", PyStr(<<>>)),
                                uuid, now)
        done == IF Truthy(Get(data, "completed", PyNone))
                THEN complete_session(made, later) ELSE made
    IN  [done EXCEPT !.interruptions = Get(data, "interruptions", PyInt(0))]

\* create_session, lines 190-194: the dictionary returned once the logger
\* has answered.
session_result(session, logged) ==
    [res |-> Returns(PyDict(<<
                <<"success", PyBool(logged.ok)>>,
                <<"session_id", session.session_id>>,
                <<"message", IF logged.ok THEN PyStr(<<"Session logged successfully">>)
                             ELSE PyStr(<<"Failed to log session">>)>> >>)),
     session |-> session, exists |-> logged.exists, lines |-> logged.lines]

\* create_session, lines 183-188: SessionLogger(path) makes the directory,
\* whatever comes of it, and log_session appends.
log_new_session(session, exists, lines, io, room) ==
    session_result(session, log_session(exists, lines, session, io, room))

\* create_session, after validation.
create_validated(data, exists, lines, io, room, uuid, now, later) ==
    IF data.exc # "none"
    THEN [res |-> data, session |-> PyNone, exists |-> exists, lines |-> lines]
    ELSE log_new_session(build_session(data.val, uuid, now, later),
                         exists, lines, io, room)

\* create_session: the value returned (or the exception raised), the session
\* built and the log after the call.  body is what request.get_json gave, None
\* when there was no JSON body.
create_session(body, exists, lines, io, room, uuid, now, later) ==
    create_validated(validate_session_request(IF Truthy(body) THEN body ELSE PyDict(<<>>)),
                     exists, lines, io, room, uuid, now, later)

\* api_create_session answering 500 when the logger reported a failure.
create_response_FailedLogIsError(made) ==
    IF made.res.exc = "none" /\ Item(made.res.val, "success") = PyBool(TRUE)
    THEN [status |-> 201, json |-> made.res.val] @@ made
    ELSE IF made.res.exc = "ValueError"
    THEN [status |-> 400, json |-> PyDict(<< <<"error", made.res.val>> >>)] @@ made
    ELSE [status |-> 500,
          json |-> PyDict(<< <<"error", PyStr(<<"Internal server error">>)>> >>)] @@ made

\* api_create_session, lines 105-110: the status and the JSON body for what
\* create_session gave.
create_response(made) ==
    IF made.res.exc = "none"
    THEN [status |-> 201, json |-> made.res.val] @@ made
    ELSE IF made.res.exc = "ValueError"
    THEN [status |-> 400, json |-> PyDict(<< <<"error", made.res.val>> >>)] @@ made
    ELSE [status |-> 500,
          json |-> PyDict(<< <<"error", PyStr(<<"Internal server error">>)>> >>)] @@ made

\* api_create_session
api_create_session(body, exists, lines, io, room, uuid, now, later) ==
    create_response(create_session(body, exists, lines, io, room, uuid, now, later))

\* The characters outside ASCII that are white space, and the zeros of the
\* decimal digits, each followed by its one to nine (Unicode 14).
UnicodeSpaces ==
    {133, 160, 5760, 8232, 8233, 8239, 8287, 12288} \cup (8192..8202)
DecimalZeros ==
    {1632, 1776, 1984, 2406, 2534, 2662, 2790, 2918, 3046, 3174, 3302, 3430, 3558,
     3664, 3792, 3872, 4160, 4240, 6112, 6160, 6470, 6608, 6784, 6800, 6992, 7088,
     7232, 7248, 42528, 43216, 43264, 43472, 43504, 43600, 44016, 65296, 66720,
     68912, 69734, 69872, 69942, 70096, 70384, 70736, 70864, 71248, 71360, 71472,
     71904, 72016, 72784, 73040, 73120, 92768, 92864, 93008, 120782, 120792,
     120802, 120812, 120822, 123200, 123632, 125264, 130032}
\* What int() makes of a character before it reads the text: a character of
\* ASCII stays, white space from outside ASCII becomes a blank, a decimal
\* digit the digit of ASCII, and any other character one that no number has.
to_ascii(c) ==
    IF ~IsCodePoint(c) \/ CodePoint(c) < 127 THEN c
    ELSE IF CodePoint(c) \in UnicodeSpaces THEN " "
    ELSE IF \E zero \in DecimalZeros : CodePoint(c) \in zero..(zero + 9)
    THEN Digits[CodePoint(c) - (CHOOSE zero \in DecimalZeros :
                                   CodePoint(c) \in zero..(zero + 9)) + 1]
    ELSE "?"
\* The characters int() strips from both ends of a text: blank, TAB, NEWLINE,
\* the vertical tab, FORMFEED and CR.
Whitespace == {" ", TAB, NEWLINE, "U+000B", FORMFEED, CR}
RECURSIVE SkipSpace(_, _)
\* The offset of the first character from p on that is not whitespace.
SkipSpace(t, p) == IF At(t, p) \in Whitespace THEN SkipSpace(t, p + 1) ELSE p
RECURSIVE SkipSpaceBack(_, _)
\* The offset after the last character before p that is not whitespace.
SkipSpaceBack(t, p) ==
    IF p > 0 /\ At(t, p - 1) \in Whitespace THEN SkipSpaceBack(t, p - 1) ELSE p
RECURSIVE int_digits(_, _, _, _, _)
\* The digits written from offset p up to p_end, which single underscores
\* may separate, "" when the text is something else.
int_digits(t, p, p_end, digits, after_digit) ==
    IF p >= p_end THEN IF after_digit THEN digits ELSE ""
    ELSE IF IsDigit(At(t, p))
    THEN int_digits(t, p + 1, p_end, digits \o At(t, p), TRUE)
    ELSE IF At(t, p) = "_" /\ after_digit
    THEN int_digits(t, p + 1, p_end, digits, FALSE)
    ELSE ""
RECURSIVE StripZeros(_)
\* The digits without their leading zeros, one digit at least.
StripZeros(digits) ==
    IF Len(digits) > 1 /\ SubSeq(digits, 1, 1) = "0"
    THEN StripZeros(SubSeq(digits, 2, Len(digits)))
    ELSE digits
\* The largest integer of the model, and whether the number written by the
\* digits (no leading zero) is one.
MaxInteger == 2 ^ 30 + (2 ^ 30 - 1)
FitsInteger(digits) ==
    \/ Len(digits) < 10
    \/ /\ Len(digits) = 10
       /\ \/ parse_digits(Bytes(digits), 0, 9) < MaxInteger \div 10
          \/ /\ parse_digits(Bytes(digits), 0, 9) = MaxInteger \div 10
             /\ DigitValue(SubSeq(digits, 10, 10)) <= MaxInteger % 10
\* The int that a sign and digits write.
int_of(negative, digits) ==
    IF ~FitsInteger(digits) THEN PyBigInt(negative, digits)
    ELSE IF negative THEN PyInt(-parse_digits(Bytes(digits), 0, Len(digits)))
    ELSE PyInt(parse_digits(Bytes(digits), 0, Len(digits)))
\* sys.get_int_max_str_digits(): int() refuses a text of more digits.
MaxStrDigits == 4300
\* int(text) of a str: whitespace around, a sign, decimal digits.
py_int(text) ==
    IF text.t # "str" THEN Raises("TypeError")
    ELSE With([k \in 1..Len(Chars(text.s)) |-> to_ascii(Chars(text.s)[k])], LAMBDA t :
         With(SkipSpace(t, 0), LAMBDA first :
         With(int_digits(t, IF At(t, first) \in {"+", "-"} THEN first + 1 ELSE first,
                         SkipSpaceBack(t, Len(t)), "", FALSE), LAMBDA digits :
             IF digits = "" \/ Len(digits) > MaxStrDigits THEN Raises("ValueError")
             ELSE Returns(int_of(At(t, first) = "-", StripZeros(digits))))))
\* An int as len(lines) > limit and lines[-limit:] take it: one beyond the
\* integers of the model is beyond every length, as the largest one is.
as_index(v) ==
    IF ~IsBigInt(v) THEN v.n
    ELSE IF v.negative THEN -MaxInteger
    ELSE MaxInteger

\* The dictionary get_sessions returns for the sessions it read.
sessions_result(sessions) ==
    PyDict(<< <<"sessions", PyList([i \in 1..Len(sessions) |-> to_dict(sessions[i])])>>,
              <<"total", PyInt(Len(sessions))>> >>)

\* get_sessions with a date parameter that must parse.
get_sessions_StrictDate(limit_arg, date_arg, exists, lines, io, uuid, now) ==
    LET limit == py_int(IF limit_arg = PyNone THEN PyStr(<<"100">>) ELSE limit_arg)
        read == IF limit.exc = "none" /\ ~Truthy(date_arg)
                THEN read_sessions(exists, lines, as_index(limit.val), io, uuid, now)
                ELSE IF limit.exc = "none" /\ fromisoformat(date_arg).exc = "none"
                THEN read_sessions_by_date(exists, lines, fromisoformat(date_arg).val.day,
                                           io, uuid, now)
                ELSE Raises("ValueError")
    IN  IF read.exc # "none" THEN read ELSE Returns(sessions_result(read.val))

\* get_sessions: limit and date are the query parameters, PyNone when the
\* request has none.  int() is outside the try block; a date that does not
\* parse falls back to the plain read.
get_sessions(limit_arg, date_arg, exists, lines, io, uuid, now) ==
    LET limit == py_int(IF limit_arg = PyNone THEN PyStr(<<"100">>) ELSE limit_arg)
        read == IF limit.exc # "none" THEN limit
                ELSE IF Truthy(date_arg) /\ fromisoformat(date_arg).exc = "none"
                THEN read_sessions_by_date(exists, lines, fromisoformat(date_arg).val.day,
                                           io, uuid, now)
                ELSE read_sessions(exists, lines, as_index(limit.val), io, uuid, now)
    IN  IF read.exc # "none" THEN read ELSE Returns(sessions_result(read.val))

\* api_get_sessions and api_get_stats: 200 with what the function returned,
\* 500 for any exception.
api_get(got) ==
    IF got.exc = "none"
    THEN [status |-> 200, json |-> got.val, exc |-> "none"]
    ELSE [status |-> 500, exc |-> got.exc,
          json |-> PyDict(<< <<"error", PyStr(<<"Internal server error">>)>> >>)]

(***************************************************************************)
(* utils/statistics.py and the statistics of app.py.  A float is held in   *)
(* tenths; today is the date.today() of the host, a day of January 2025.   *)
(***************************************************************************)
\* A Python float is an IEEE 754 double.  One that is not zero is held here
\* as the exponent e of its leading bit and its 53-bit significand m, cut
\* into five limbs: the leading bit, then four limbs of 13 bits.
Limb == 2 ^ 13
\* Round half to even: one more when the first bit dropped is set and either
\* a later one is set too or the bits kept are odd.
HalfEven(guard, sticky, odd) == guard /\ (sticky \/ odd)
\* The significand plus one in its last place; <<2, 0, 0, 0, 0>> when the
\* carry runs over the leading bit.
Successor(m) ==
    IF m[5] + 1 < Limb THEN [m EXCEPT ![5] = @ + 1]
    ELSE IF m[4] + 1 < Limb THEN [m EXCEPT ![5] = 0, ![4] = @ + 1]
    ELSE IF m[3] + 1 < Limb THEN [m EXCEPT ![5] = 0, ![4] = 0, ![3] = @ + 1]
    ELSE IF m[2] + 1 < Limb THEN [m EXCEPT ![5] = 0, ![4] = 0, ![3] = 0, ![2] = @ + 1]
    ELSE <<2, 0, 0, 0, 0>>
\* The double nearest to a value cut to 53 bits, given what was cut off.
Rounded(e, m, up) ==
    With(IF up THEN Successor(m) ELSE m,
         LAMBDA n : IF n[1] = 2 THEN [e |-> e + 1, m |-> <<1, 0, 0, 0, 0>>]
                    ELSE [e |-> e, m |-> n])
RECURSIVE ScaleUp(_, _, _)
\* The least k from the given one on with a < den * 2^(k+1).
ScaleUp(a, den, k) == IF a >= den * 2 ^ (k + 1) THEN ScaleUp(a, den, k + 1) ELSE k
RECURSIVE ScaleDown(_, _, _)
\* The least k from the given one on with a * 2^k >= den.
ScaleDown(a, den, k) == IF a * 2 ^ k < den THEN ScaleDown(a, den, k + 1) ELSE k
RECURSIVE LongDivision(_, _, _, _)
\* n further limbs of the quotient by den, r being the remainder so far.
LongDivision(r, den, n, m) ==
    IF n = 0 THEN [m |-> m, rem |-> r]
    ELSE LongDivision((r * Limb) % den, den, n - 1, Append(m, (r * Limb) \div den))
\* The quotient of two numbers with den <= num < 2 * den, at the exponent e.
DivideScaled(e, num, den) ==
    With(LongDivision(num - den, den, 4, <<1>>),
         LAMBDA q : Rounded(e, q.m,
                            HalfEven(2 * q.rem >= den,
                                     IF 2 * q.rem >= den THEN 2 * q.rem # den
                                     ELSE q.rem # 0,
                                     q.m[5] % 2 = 1)))
\* a / den for whole numbers a > 0 and den > 0 below 2^17: true division of
\* two ints, correctly rounded.
float_div(a, den) ==
    IF a >= den
    THEN With(ScaleUp(a, den, 0), LAMBDA k : DivideScaled(k, a, den * 2 ^ k))
    ELSE With(ScaleDown(a, den, 1), LAMBDA k : DivideScaled(-k, a * 2 ^ k, den))
\* The exact product of a significand and a small whole number: limbs as
\* before, the first one holding what lies above the four of 13 bits.
Times(m, k) ==
    LET v5 == m[5] * k
        v4 == m[4] * k + v5 \div Limb
        v3 == m[3] * k + v4 \div Limb
        v2 == m[2] * k + v3 \div Limb
    IN  <<m[1] * k + v2 \div Limb, v2 % Limb, v3 % Limb, v4 % Limb, v5 % Limb>>
\* The limbs shifted right by sh bits, sh < 13.
ShiftRight(p, sh) ==
    [i \in 1..5 |->
        p[i] \div 2 ^ sh + (IF i = 1 THEN 0 ELSE (p[i - 1] % 2 ^ sh) * 2 ^ (13 - sh))]
\* x * 100: the exact product has six or seven bits more than fit.
float_mul100(x) ==
    With(Times(x.m, 100),
         LAMBDA p : With(IF p[1] >= 128 THEN 7 ELSE 6,
             LAMBDA sh : With(ShiftRight(p, sh),
                 LAMBDA m : Rounded(x.e + sh, m,
                                    HalfEven(p[5] % 2 ^ sh >= 2 ^ (sh - 1),
                                             p[5] % 2 ^ (sh - 1) # 0,
                                             m[5] % 2 = 1)))))
\* The whole number nearest to upper / 2^bits, a tie going to the even one;
\* lower says that the value has further bits set below those of upper.
NearestWhole(upper, lower, bits) ==
    IF bits >= 32 THEN 0
    ELSE With(IF bits = 31 THEN 0 ELSE upper \div 2 ^ bits, LAMBDA whole :
         With(IF bits = 31 THEN upper ELSE upper % 2 ^ bits, LAMBDA rest :
             IF HalfEven(rest >= 2 ^ (bits - 1),
                         (rest % 2 ^ (bits - 1)) # 0 \/ lower,
                         whole % 2 = 1)
             THEN whole + 1 ELSE whole))
\* round(x, 1) in tenths: the decimal of one digit nearest to the exact value
\* of the double, a tie going to the even digit.
round_tenths(x) ==
    With(Times(x.m, 10),
         LAMBDA y : NearestWhole(y[1] * Limb * Limb + y[2] * Limb + y[3],
                                 y[4] # 0 \/ y[5] # 0,
                                 26 - x.e))
\* round(num / den * 100, 1) in tenths, den > 0: the division and the
\* product are each rounded to a double, and the result is the tenth nearest
\* to that double; the sign of num is kept.
RoundTenths(num, den) ==
    IF num = 0 THEN 0
    ELSE IF num < 0 THEN -round_tenths(float_mul100(float_div(-num, den)))
    ELSE round_tenths(float_mul100(float_div(num, den)))

\* sum(values) of Python over ints; a bool counts as 0 or 1.
py_sum(values) ==
    SumTo([i \in 1..Len(values) |->
              IF values[i].t = "bool" THEN (IF values[i].b THEN 1 ELSE 0) ELSE values[i].n],
          Len(values))

\* sum(1 for s in sessions if s.completed)
CountCompleted(sessions) == Len(SelectSeq(sessions, LAMBDA s : Truthy(s.completed)))

\* sum(s.duration_minutes for s in sessions if work and completed)
FocusMinutes(sessions) ==
    py_sum([i \in 1..Len(SelectSeq(sessions, LAMBDA s : s.session_type = PyStr(<<"work">>)
                                                       /\ Truthy(s.completed))) |->
               SelectSeq(sessions, LAMBDA s : s.session_type = PyStr(<<"work">>)
                                              /\ Truthy(s.completed))[i].duration_minutes])

\* get_completion_rate
get_completion_rate(sessions) ==
    IF Len(sessions) = 0 THEN PyFloat(0)
    ELSE PyFloat(RoundTenths(CountCompleted(sessions), Len(sessions)))

\* create_empty_stats
create_empty_stats ==
    PyDict(<< <<"total_sessions", PyInt(0)>>,
              <<"completed_sessions", PyInt(0)>>,
              <<"total_focus_minutes", PyInt(0)>>,
              <<"completion_rate", PyFloat(0)>> >>)

\* The aggregates that calculate_daily_stats and calculate_weekly_stats share,
\* over the sessions they have filtered.
stats_totals(chosen) ==
    << <<"total_sessions", PyInt(Len(chosen))>>,
       <<"completed_sessions", PyInt(CountCompleted(chosen))>>,
       <<"total_focus_minutes", PyInt(FocusMinutes(chosen))>>,
       <<"completion_rate",
         IF Len(chosen) > 0 THEN PyFloat(RoundTenths(CountCompleted(chosen), Len(chosen)))
         ELSE PyInt(0)>> >>

\* calculate_daily_stats: work_sessions is the list of completed work sessions.
calculate_daily_stats(sessions, today) ==
    IF sessions = <<>> THEN create_empty_stats
    ELSE LET today_sessions == SelectSeq(sessions, LAMBDA s : s.start_time.day = today)
         IN  PyDict(<< <<"date", PyStr(<<DateText(today)>>)>> >>
                    \o stats_totals(today_sessions)
                    \o << <<"work_sessions",
                            PyInt(Len(SelectSeq(today_sessions,
                                      LAMBDA s : s.session_type = PyStr(<<"work">>)
                                                 /\ Truthy(s.completed))))>>,
                          <<"break_sessions",
                            PyInt(Len(SelectSeq(today_sessions,
                                      LAMBDA s : s.session_type # PyStr(<<"work">>))))>> >>)

\* date.weekday() of a day of January 2025, Monday 0; the 6th is a Monday.
weekday(day) == (day + 1) % 7
\* strftime('%A')
DayNames == <<"Monday", "Tuesday", "Wednesday", "Thursday", "Friday", "Saturday", "Sunday">>

\* calculate_weekly_stats
calculate_weekly_stats(sessions, today) ==
    IF sessions = <<>> THEN create_empty_stats
    ELSE LET week_start == today - weekday(today)
             week_sessions == SelectSeq(sessions, LAMBDA s : week_start <= s.start_time.day
                                                            /\ s.start_time.day <= today)
         IN  PyDict(<< <<"week_start", PyStr(<<DateText(week_start)>>)>> >>
                    \o stats_totals(week_sessions)
                    \o << <<"daily_breakdown",
                            PyDict([i \in 1..7 |->
                                <<DayNames[weekday(week_start + i - 1) + 1],
                                  PyDict(<< <<"sessions",
                                              PyInt(Len(SelectSeq(week_sessions,
                                                  LAMBDA s : s.start_time.day
                                                             = week_start + i - 1)))>>,
                                            <<"completed",
                                              PyInt(CountCompleted(SelectSeq(week_sessions,
                                                  LAMBDA s : s.start_time.day
                                                             = week_start + i - 1)))>> >>)>>])>> >>)

\* The dictionary get_productivity_trends returns.
trend_result(trend, change, description) ==
    PyDict(<< <<"trend", PyStr(<<trend>>)>>,
              <<"change", change>>,
              <<"description", PyStr(description)>> >>)

\* f'{x:.1f}' of a float held in tenths, x >= 0
FormatTenths(x) == ToString(x \div 10) \o "." \o ToString(x % 10)

\* round(num / den * 100, 1) as a float: a negative quotient that rounds to
\* zero gives -0.0.
round_percent(num, den) ==
    IF num < 0 /\ RoundTenths(num, den) = 0 THEN NegativeZero
    ELSE PyFloat(RoundTenths(num, den))

\* The classification with the two thresholds included: a change of exactly
\* 10 percent is a trend.
trend_of_InclusiveThreshold(last_week_completed, this_week_completed) ==
    IF last_week_completed = 0
    THEN IF this_week_completed > 0
         THEN trend_result("improving", PyFloat(1000), <<"Started completing sessions">>)
         ELSE trend_result("stable", PyFloat(0), <<"No completed sessions">>)
    ELSE IF 10 * (this_week_completed - last_week_completed) >= last_week_completed
    THEN trend_result("improving",
                      round_percent(this_week_completed - last_week_completed,
                                    last_week_completed), <<"increased">>)
    ELSE IF 10 * (this_week_completed - last_week_completed) <= -last_week_completed
    THEN trend_result("declining",
                      round_percent(this_week_completed - last_week_completed,
                                    last_week_completed), <<"decreased">>)
    ELSE trend_result("stable",
                      round_percent(this_week_completed - last_week_completed,
                                    last_week_completed), <<"Completion rate is stable">>)

\* get_productivity_trends, lines 146-171: from the two counts of completed
\* sessions to the result.
trend_of(last_week_completed, this_week_completed) ==
    IF last_week_completed = 0
    THEN IF this_week_completed > 0
         THEN trend_result("improving", PyFloat(1000), <<"Started completing sessions">>)
         ELSE trend_result("stable", PyFloat(0), <<"No completed sessions">>)
    ELSE LET diff == this_week_completed - last_week_completed
             change == RoundTenths(diff, last_week_completed)
         IN  IF 10 * diff > last_week_completed
             THEN trend_result("improving", PyFloat(change),
                               <<"Completed sessions increased by ", FormatTenths(change), "%">>)
             ELSE IF 10 * diff < -last_week_completed
             THEN trend_result("declining", PyFloat(change),
                               <<"Completed sessions decreased by ", FormatTenths(-change), "%">>)
             ELSE trend_result("stable", round_percent(diff, last_week_completed),
                               <<"Completion rate is stable">>)

\* get_productivity_trends: recent_sessions has no upper limit on the date.
get_productivity_trends(sessions, today) ==
    IF sessions = <<>> THEN trend_result("stable", PyFloat(0), <<"No data available">>)
    ELSE LET recent_sessions == SelectSeq(sessions, LAMBDA s : s.start_time.day >= today - 14)
         IN  IF Len(recent_sessions) < 2
             THEN trend_result("stable", PyFloat(0), <<"Insufficient data">>)
             ELSE trend_of(CountCompleted(SelectSeq(recent_sessions,
                                   LAMBDA s : s.start_time.day < today - 7)),
                           CountCompleted(SelectSeq(recent_sessions,
                                   LAMBDA s : s.start_time.day >= today - 7)))

\* get_session_type_distribution: session.session_type in distribution hashes
\* the type, so a list or a dict as the type raises TypeError.
get_session_type_distribution(sessions) ==
    IF \E i \in 1..Len(sessions) : ~Hashable(sessions[i].session_type)
    THEN Raises("TypeError")
    ELSE Returns(PyDict([k \in 1..3 |->
             <<(<<"work", "short_break", "long_break">>)[k],
               PyInt(Len(SelectSeq(sessions,
                   LAMBDA s : s.session_type
                                = PyStr(<<(<<"work", "short_break", "long_break">>)[k]>>))))>>]))

\* The completed work sessions, of which get_peak_productivity_hours counts
\* the hours.
CompletedWork(sessions) ==
    SelectSeq(sessions, LAMBDA s : s.session_type = PyStr(<<"work">>) /\ Truthy(s.completed))

\* hourly_counts: a dict keeps its keys in the order of their insertion, so
\* the hours stand in the order in which the sessions first show them.
hourly_counts(counted) ==
    [k \in 1..Len(SelectSeq([i \in 1..Len(counted) |-> i],
                    LAMBDA i : \A j \in 1..(i - 1) :
                                  counted[j].start_time.hour # counted[i].start_time.hour)) |->
        <<counted[SelectSeq([i \in 1..Len(counted) |-> i],
                      LAMBDA i : \A j \in 1..(i - 1) :
                                    counted[j].start_time.hour # counted[i].start_time.hour)[k]]
              .start_time.hour,
          PyInt(Len(SelectSeq(counted,
              LAMBDA s : s.start_time.hour
                           = counted[SelectSeq([i \in 1..Len(counted) |-> i],
                                 LAMBDA i : \A j \in 1..(i - 1) :
                                     counted[j].start_time.hour # counted[i].start_time.hour)[k]]
                                 .start_time.hour)))>>]

\* max over the keys with the lowest hour winning a tie.
py_max_key_LowestHour(counts) ==
    counts[CHOOSE k \in 1..Len(counts) :
              /\ \A j \in 1..Len(counts) : counts[j][2].n <= counts[k][2].n
              /\ \A j \in 1..Len(counts) :
                     counts[j][2].n = counts[k][2].n => counts[k][1] <= counts[j][1]][1]

\* max(hourly_counts, key=hourly_counts.get): the first key, in the order of
\* the dict, whose count no other count exceeds.
py_max_key(counts) ==
    counts[CHOOSE k \in 1..Len(counts) :
              /\ \A j \in 1..Len(counts) : counts[j][2].n <= counts[k][2].n
              /\ \A j \in 1..(k - 1) : counts[j][2].n < counts[k][2].n][1]

\* get_peak_productivity_hours
get_peak_productivity_hours(sessions) ==
    IF sessions = <<>> \/ CompletedWork(sessions) = <<>>
    THEN PyDict(<< <<"peak_hour", PyNone>>, <<"sessions_count", PyInt(0)>> >>)
    ELSE PyDict(<< <<"peak_hour", PyInt(py_max_key(hourly_counts(CompletedWork(sessions))))>>,
                   <<"sessions_count",
                     Item(PyDict(hourly_counts(CompletedWork(sessions))),
                          py_max_key(hourly_counts(CompletedWork(sessions))))>>,
                   <<"hourly_distribution", PyDict(hourly_counts(CompletedWork(sessions)))>> >>)

\* The statistics of get_session_stats with every completed session counted
\* into the focus minutes.
stats_of_AllCompletedFocus(sessions, todays) ==
    PyDict(<< <<"total_sessions", PyInt(Len(sessions))>>,
              <<"completed_sessions", PyInt(CountCompleted(sessions))>>,
              <<"total_focus_minutes",
                PyInt(py_sum([i \in 1..Len(SelectSeq(sessions, LAMBDA s : Truthy(s.completed))) |->
                                SelectSeq(sessions, LAMBDA s : Truthy(s.completed))[i]
                                    .duration_minutes]))>>,
              <<"completion_rate",
                IF Len(sessions) > 0
                THEN PyFloat(RoundTenths(CountCompleted(sessions), Len(sessions)))
                ELSE PyInt(0)>>,
              <<"today_sessions",
                PyInt(Cardinality({i \in 1..Len(sessions) :
                                      sessions[i].start_time.day = todays[i]}))>> >>)

\* get_session_stats, lines 238-251: the dictionary for the sessions read.
\* round(0, 1) of the empty case is the int 0.  date.today() is evaluated
\* once for each session, and todays[i] is what it gives for the i-th.
stats_of(sessions, todays) ==
    PyDict(<< <<"total_sessions", PyInt(Len(sessions))>>,
              <<"completed_sessions", PyInt(CountCompleted(sessions))>>,
              <<"total_focus_minutes", PyInt(FocusMinutes(sessions))>>,
              <<"completion_rate",
                IF Len(sessions) > 0
                THEN PyFloat(RoundTenths(CountCompleted(sessions), Len(sessions)))
                ELSE PyInt(0)>>,
              <<"today_sessions",
                PyInt(Cardinality({i \in 1..Len(sessions) :
                                      sessions[i].start_time.day = todays[i]}))>> >>)

\* date.today(): the calendar date, at the instant now, on the clock of a host
\* that is utc_offset hours east of UTC.
date_today(now, utc_offset) == now.day + ((now.hour + utc_offset) \div 24)

\* What date.today() gives in n evaluations made one after the other on a
\* host whose date is today at the first: the same day, and the day after
\* from the evaluation before which midnight passes (turn; 0 when it does
\* not pass).
host_dates(today, turn, n) ==
    [i \in 1..n |-> IF turn > 0 /\ i >= turn THEN today + 1 ELSE today]

\* get_session_stats
get_session_stats(exists, lines, io, today, turn, uuid, now) ==
    With(read_sessions(exists, lines, 1000, io, uuid, now), LAMBDA read :
        IF read.exc # "none" THEN read
        ELSE Returns(stats_of(read.val, host_dates(today, turn, Len(read.val)))))

(***************************************************************************)
(* The state.                                                              *)
(***************************************************************************)
VARIABLES
    tick,       \* the clock
    nextId,     \* how many session ids have been drawn
    session,    \* the session object in flight, PyNone before the first one
    exists,     \* whether the log file exists
    lines,      \* the lines of the log file
    old,        \* the rotated file: whether it exists and its lines
    log_file_path,  \* the path of the log file, as the loggers are built on it
    writers,    \* per writer: where it stands in log_session and its open file
    appended,   \* history: the sessions whose entry and newline log_session has
                \* written to the file, in the order of the writes
    pristine,   \* history: the log started empty and has not been rotated
    last        \* the most recent call: its arguments and what it gave

vars == <<tick, nextId, session, exists, lines, old, log_file_path, writers, appended, pristine, last>>
clockVars == <<tick, nextId>>
fileVars == <<exists, lines, old, log_file_path, writers, appended, pristine>>

\* The writers that may be inside log_session at the same time, each through
\* a SessionLogger and a file object of its own; outside log_session a
\* writer is idle.
MaxWriters == 2
IdleWriters ==
    [w \in 1..MaxWriters |-> [pc |-> "idle", session |-> PyNone, entry |-> PyNone, at |-> 0]]

\* The record of a call; each action fills in the fields it has.
Call(op) ==
    [op |-> op, io |-> "ok", exc |-> "none", ok |-> TRUE, limit |-> 0,
     arg |-> PyNone, out |-> PyNone, sessions |-> <<>>, status |-> 0,
     before |-> <<>>]

(***************************************************************************)
(* The session entity on its own.                                          *)
(***************************************************************************)
TypeInputs == {PyStr(<<"work">>), PyStr(<<"short_break">>), PyStr(<<"nap">>)}
DurationInputs == {PyInt(25), PyInt(0)}
\* Descriptions: none, and one of quotes, a newline, a letter with an
\* accent, the text of an escape, a tab, control characters, a character of
\* three bytes, one beyond U+FFFF, and a surrogate that trails a pair
\* directly before one that leads a pair.
EscapedText ==
    PyStr(<<"Fix ", QUOTE, "bug", QUOTE, NEWLINE, NONASCII, BACKSLASH, "u00e9", TAB,
            CONTROL, "U+007F", "U+4E2D", "U+1F600", "U+DE00", "U+D83D">>)
DescriptionInputs == {PyStr(<<>>), EscapedText}
\* Every text of one or two of these: a letter, the quote, the backslash, a
\* newline, a tab, NUL, DEL, a letter with an accent, a character beyond
\* U+FFFF, a surrogate that leads a pair, one that trails a pair, the text
\* that follows the backslash of an escape, and the text that follows the
\* letter U when a code point is spelled out.
TextGlyphs ==
    {"U", QUOTE, BACKSLASH, NEWLINE, TAB, "U+0000", "U+007F", NONASCII, "U+1F600",
     "U+D83D", "U+DE00", "u00e9", "+00E9"}
Texts ==
    {PyStr(<<g>>) : g \in TextGlyphs} \cup {PyStr(<<g, h>>) : g, h \in TextGlyphs}

Init ==
    /\ tick = 0
    /\ nextId = 0
    /\ session = PyNone
    /\ exists = FALSE
    /\ lines = <<>>
    /\ old = [exists |-> FALSE, lines |-> <<>>]
    /\ log_file_path = DefaultLogPath
    /\ writers = IdleWriters
    /\ appended = <<>>
    /\ pristine = TRUE
    /\ last = Call("init")

\* Time passes.
Tick ==
    /\ tick < MaxTick
    /\ tick' = tick + 1
    /\ last' = Call("tick")
    /\ UNCHANGED <<nextId, session, fileVars>>

\* session = PomodoroSession(session_type, duration, task_description)
NewSession(session_type, duration, task_description) ==
    /\ nextId < MaxSessions
    /\ nextId' = nextId + 1
    /\ session' = PomodoroSession(session_type, duration, task_description,
                                  nextId + 1, utcnow(tick))
    /\ last' = Call("PomodoroSession")
    /\ UNCHANGED <<tick, fileVars>>

\* session.add_interruption()
AddInterruption ==
    /\ session # PyNone
    /\ session.interruptions.n < MaxInterruptions
    /\ session' = add_interruption(session)
    /\ last' = [Call("add_interruption") EXCEPT !.before = <<session>>]
    /\ UNCHANGED <<clockVars, fileVars>>

\* session.complete_session()
CompleteSession ==
    /\ session # PyNone
    /\ session' = complete_session(session, utcnow(tick))
    /\ last' = [Call("complete_session") EXCEPT !.before = <<session>>]
    /\ UNCHANGED <<clockVars, fileVars>>

\* PomodoroSession.from_dict(session.to_dict()).  The uuid and the clock
\* reading taken by the constructor inside from_dict are overwritten.
DictRoundTrip ==
    /\ session # PyNone
    /\ \E made \in {from_dict(to_dict(session), nextId + 1, utcnow(tick))} :
           last' = [Call("from_dict") EXCEPT !.arg = to_dict(session),
                                            !.exc = made.exc, !.out = made.val]
    /\ UNCHANGED <<clockVars, session, fileVars>>

\* parse_log_entry(create_log_entry(session))
LogEntryRoundTrip ==
    /\ session # PyNone
    /\ last' = [Call("parse_log_entry") EXCEPT
                   !.out = parse_log_entry(create_log_entry(session),
                                           nextId + 1, utcnow(tick))]
    /\ UNCHANGED <<clockVars, session, fileVars>>

\* Dictionaries handed to from_dict: the four required keys alone, and with
\* start_time or end_time left out, empty or not a timestamp.
StoredItems ==
    << <<"session_type", PyStr(<<"work">>)>>,
       <<"duration_minutes", PyInt(25)>>,
       <<"session_id", PyStr(<<"uuid-7">>)>>,
       <<"start_time", isoformat(utcnow(1))>> >>
StoredItemsNoStart == SubSeq(StoredItems, 1, 3)
DictInputs ==
    {PyDict(StoredItems),
     PyDict(StoredItemsNoStart),
     PyDict(StoredItemsNoStart \o << <<"start_time", PyStr(<<"invalid-datetime">>)>> >>),
     PyDict(StoredItemsNoStart \o << <<"start_time", PyInt(5)>> >>),
     PyDict(StoredItems \o << <<"end_time", PyStr(<<"2025-01-15", "T", "25:61">>)>> >>),
     PyDict(StoredItems \o << <<"end_time", PyStr(<<>>)>> >>),
     PyDict(StoredItems \o << <<"end_time", isoformat(utcnow(2))>>,
                              <<"completed", PyBool(TRUE)>> >>)}

\* PomodoroSession.from_dict(data)
FromDict(data) ==
    /\ \E made \in {from_dict(data, nextId + 1, utcnow(tick))} :
           last' = [Call("from_dict") EXCEPT !.arg = data,
                                            !.exc = made.exc, !.out = made.val]
    /\ UNCHANGED <<clockVars, session, fileVars>>

\* A session that is the first of its run and made at the last tick has a
\* description out of Texts.
Next ==
    \/ Tick
    \/ \E data \in DictInputs : FromDict(data)
    \/ \E ty \in TypeInputs, du \in DurationInputs, de \in DescriptionInputs :
          NewSession(ty, du, de)
    \/ \E de \in Texts :
          tick = MaxTick /\ nextId = 0 /\ NewSession(PyStr(<<"work">>), PyInt(25), de)
    \/ AddInterruption
    \/ CompleteSession
    \/ DictRoundTrip
    \/ LogEntryRoundTrip

Spec == Init /\ [][Next]_vars

(***************************************************************************)
(* Validation: sessions constructed with any type and any duration, their  *)
(* interruptions set as app.py sets them, and the two checks.              *)
(***************************************************************************)
TypeValues ==
    {PyStr(<<"work">>), PyStr(<<"short_break">>), PyStr(<<"long_break">>),
     PyStr(<<"Work">>), PyStr(<<>>), PyNone, PyInt(5),
     PyList(<<PyStr(<<"work">>)>>), PyDict(<<>>)}
DurationValues == {PyInt(25), PyInt(0), PyInt(-5), PyFloat(25), PyStr(<<"abc">>), PyNone}
InterruptionValues == {PyInt(0), PyInt(-1), PyInt(1)}

\* session.interruptions = value
SetInterruptions(value) ==
    /\ session # PyNone
    /\ session' = [session EXCEPT !.interruptions = value]
    /\ last' = Call("set_interruptions")
    /\ UNCHANGED <<clockVars, fileVars>>

\* session.validate()
Validate ==
    /\ session # PyNone
    /\ \E made \in {validate(session)} :
           last' = [Call("validate") EXCEPT !.before = <<session>>,
                                           !.exc = made.exc, !.out = made.val]
    /\ UNCHANGED <<clockVars, session, fileVars>>

\* validate_session_type(value)
ValidateSessionType(value) ==
    /\ \E made \in {validate_session_type(value)} :
           last' = [Call("validate_session_type") EXCEPT !.arg = value,
                                                        !.exc = made.exc, !.out = made.val]
    /\ UNCHANGED <<clockVars, session, fileVars>>

NextValidate ==
    \/ \E session_type \in TypeValues, duration \in DurationValues :
           NewSession(session_type, duration, PyStr(<<>>))
    \/ \E value \in InterruptionValues : SetInterruptions(value)
    \/ Validate
    \/ \E value \in TypeValues : ValidateSessionType(value)

SpecValidate == Init /\ [][NextValidate]_vars

(***************************************************************************)
(* The log store, over a log file that may hold lines the program wrote in *)
(* an earlier run and lines it did not write.                              *)
(***************************************************************************)
Work == PyStr(<<"work">>)
ShortBreak == PyStr(<<"short_break">>)
Nap == PyStr(<<"nap">>)

\* Sessions as the constructor and the methods build them.
PendingWork == PomodoroSession(Work, PyInt(25), PyStr(<<>>), 1, utcnow(0))
CompletedBreak ==
    complete_session(
        add_interruption(
            PomodoroSession(ShortBreak, PyInt(5),
                            PyStr(<<"Tea ", QUOTE, "break", QUOTE, NEWLINE>>), 2, utcnow(1))),
        utcnow(2))
PendingNap == PomodoroSession(Nap, PyInt(25), PyStr(<<>>), 3, utcnow(1))
SessionInputs == {PendingWork, CompletedBreak, PendingNap}

\* A record an earlier run wrote.
EarlierSession ==
    complete_session(PomodoroSession(Work, PyInt(25), PyStr(<<"Earlier">>), 9, utcnow(0)),
                     utcnow(1))
EarlierRecord == create_log_entry(EarlierSession)

\* Records the program did not write: the four required keys, and variations.
RequiredItems ==
    << <<"session_type", Work>>,
       <<"duration_minutes", PyInt(25)>>,
       <<"session_id", PyStr(<<"uuid-8">>)>>,
       <<"start_time", isoformat(utcnow(0))>> >>
Without(items, key) == SelectSeq(items, LAMBDA kv : kv[1] # key)
Record(items) == JsonLine(json_dumps(PyDict(items)))
RecordNoId == Record(Without(RequiredItems, "session_id"))
RecordNoStart == Record(Without(RequiredItems, "start_time"))
RecordBadStart ==
    Record(Without(RequiredItems, "start_time")
           \o << <<"start_time", PyStr(<<"invalid-datetime">>)>> >>)
RecordCompletedNoEnd == Record(RequiredItems \o << <<"completed", PyBool(TRUE)>> >>)
NotAnObject == JsonLine(json_dumps(PyList(<<PyInt(1), PyInt(2)>>)))
\* A line of another program that writes start_time twice, a timestamp and
\* then a text that is none.
RecordStartTwice ==
    JsonLine(JObject(json_dumps(PyDict(RequiredItems)).members
                         \o << <<"start_time", JString(<<"invalid-datetime">>)>> >>))

\* Lines that take part in every arrangement of the initial file, and
\* records that parse_log_entry turns down, each of these after one good record.
ExternalLines ==
    {EarlierRecord, TextLine(7), BlankLine(0), UndecodableLine(2), RecordCompletedNoEnd}
RejectedRecords ==
    {NotAnObject, RecordNoId, RecordNoStart, RecordBadStart, RecordStartTwice}

\* A record of the day before, and a file that holds it ahead of as many
\* records of the day as read_sessions_by_date asks read_sessions for.
DayBeforeRecord ==
    create_log_entry(PomodoroSession(Work, PyInt(25), PyStr(<<"Day before">>), 7,
                                     PyDatetime(14, 23, 0, "utc")))
LongFile == [i \in 1..(DateFilterLimit + 1) |-> IF i = 1 THEN DayBeforeRecord ELSE EarlierRecord]

SeqsUpTo(S, n) == UNION {[1..k -> S] : k \in 0..n}
InitialFiles ==
    SeqsUpTo(ExternalLines, MaxExternal)
        \cup {<<EarlierRecord, r>> : r \in RejectedRecords}
        \cup {<<DayBeforeRecord, EarlierRecord>>, <<EarlierRecord, DayBeforeRecord>>, LongFile}

InitLog ==
    /\ tick = 0
    /\ nextId = 0
    /\ session = PyNone
    /\ lines \in InitialFiles
    /\ exists \in (IF lines = <<>> THEN BOOLEAN ELSE {TRUE})
    /\ old = [exists |-> FALSE, lines |-> <<>>]
    /\ log_file_path = DefaultLogPath
    /\ writers = IdleWriters
    /\ appended = <<>>
    /\ pristine = (lines = <<>>)
    /\ last = Call("init")

\* SessionLogger(path): __init__ calls ensure_log_directory.  The directory
\* can be missing only while the file is.
EnsureLogDirectory(io) ==
    /\ io = "mkdir_denied" => ~exists
    /\ LET r == ensure_log_directory(io)
       IN  last' = [Call("ensure_log_directory") EXCEPT
                       !.io = io, !.exc = r.exc, !.ok = r.val.b]
    /\ UNCHANGED <<clockVars, session, fileVars>>

\* The bytes after the last newline of the file.
TornBytes(file) ==
    IF file # <<>> /\ file[Len(file)].kind = "partial" THEN file[Len(file)].bytes ELSE 0

\* Every line of the file is an entry that was written whole.
WholeEntries(file) == \A i \in 1..Len(file) : file[i].kind = "json"

\* The room a file system that fills up during the write of the entry of s
\* has left: none, some of the entry, or all of it but the newline.  A run
\* on a log that started empty goes through all three, once.
RoomLeft(s) ==
    IF pristine /\ WholeEntries(lines) THEN {0, 10, LineBytes(create_log_entry(s))} ELSE {0}

\* logger.log_session(s)
LogSession(s, io, room) ==
    /\ Len(lines) < MaxLines
    /\ \E r \in {log_session(exists, lines, s, io, room)} :
           /\ exists' = r.exists
           /\ lines' = r.lines
           /\ appended' = IF r.ok THEN Append(appended, s) ELSE appended
           /\ last' = [Call("log_session") EXCEPT
                          !.io = io, !.ok = r.ok, !.arg = s, !.before = lines]
    /\ UNCHANGED <<clockVars, session, old, log_file_path, writers, pristine>>

\* logger.read_sessions(limit)
ReadSessions(limit, io) ==
    /\ \E r \in {read_sessions(exists, lines, limit, io, nextId + 1, utcnow(tick))} :
           last' = [Call("read_sessions") EXCEPT
                       !.io = io, !.limit = limit, !.exc = r.exc,
                       !.sessions = IF r.exc = "none" THEN r.val ELSE <<>>,
                       !.before = lines]
    /\ UNCHANGED <<clockVars, session, fileVars>>

\* logger.read_sessions_by_date(date(2025, 1, day))
ReadSessionsByDate(day, io) ==
    /\ \E r \in {read_sessions_by_date(exists, lines, day, io, nextId + 1, utcnow(tick))} :
           last' = [Call("read_sessions_by_date") EXCEPT
                       !.io = io, !.limit = day, !.exc = r.exc,
                       !.sessions = IF r.exc = "none" THEN r.val ELSE <<>>,
                       !.before = lines]
    /\ UNCHANGED <<clockVars, session, fileVars>>

\* logger.rotate_log_if_needed()
RotateLogIfNeeded(io) ==
    /\ \E r \in {rotate_log_if_needed(exists, lines, old, io)} :
           /\ exists' = r.exists
           /\ lines' = r.lines
           /\ old' = r.old
           /\ pristine' = (pristine /\ r.lines = lines)
           /\ last' = [Call("rotate_log_if_needed") EXCEPT
                          !.io = io, !.exc = r.res.exc,
                          !.ok = (r.res.exc = "none" /\ r.res.val.b),
                          !.before = lines,
                          !.arg = PyStr(log_file_path),
                          !.out = IF r.old # old \/ r.exists # exists
                                  THEN PyStr(backup_path(log_file_path)) ELSE PyNone]
    /\ UNCHANGED <<clockVars, session, log_file_path, writers, appended>>

NextLog ==
    \/ \E io \in {"ok", "mkdir_denied"} : EnsureLogDirectory(io)
    \/ \E s \in SessionInputs : LogSession(s, "ok", 0)
    \/ LogSession(PendingWork, "open_denied", 0)
    \/ \E room \in RoomLeft(PendingWork) : LogSession(PendingWork, "disk_full", room)
    \/ \E limit \in 0..MaxLimit : ReadSessions(limit, "ok")
    \/ \E io \in {"ok", "stat_denied", "open_denied"} : ReadSessions(DefaultLimit, io)
    \/ \E day \in {14, 15} : ReadSessionsByDate(day, "ok")
    \/ \E io \in {"stat_denied", "open_denied"} : ReadSessionsByDate(15, io)
    \/ \E io \in {"ok", "stat_denied", "rename_denied"} : RotateLogIfNeeded(io)

SpecLog == InitLog /\ [][NextLog]_vars

(***************************************************************************)
(* log_session step by step, with several writers on the same log file:    *)
(* the entry is made and the file opened for append (lines 32 and 34), the  *)
(* entry and its newline are handed to the file object (line 35), which     *)
(* keeps them in its buffer when they are fewer bytes than the buffer takes *)
(* and writes them to the file at once otherwise, and on leaving the with   *)
(* block what is in the buffer is written in one write and the file closed  *)
(* (line 36).                                                               *)
(***************************************************************************)
\* The bytes the text layer of a file object collects before it writes.
BufferSize == 8 * 1024

RECURSIVE Repeat(_, _)
\* The text s taken n times.
Repeat(s, n) ==
    IF n = 0 THEN ""
    ELSE IF n = 1 THEN s
    ELSE With(Repeat(s, n \div 2), LAMBDA h : h \o h \o (IF n % 2 = 1 THEN s ELSE ""))

\* A pending session whose entry and newline are the given number of bytes.
SessionOfBytes(total) ==
    PomodoroSession(Work, PyInt(25),
                    PyStr(<<Repeat("x", total - 1 - LineBytes(create_log_entry(PendingWork)))>>),
                    1, utcnow(0))
\* Sessions whose entries stay in the buffer until the file is closed, the
\* largest of them among these, and the smallest that does not.
WriterInputs == {PendingWork, SessionOfBytes(BufferSize - 1), SessionOfBytes(BufferSize)}

InitConcurrent ==
    /\ tick = 0
    /\ nextId = 0
    /\ session = PyNone
    /\ lines = <<>>
    /\ exists \in BOOLEAN
    /\ old = [exists |-> FALSE, lines |-> <<>>]
    /\ log_file_path = DefaultLogPath
    /\ writers = IdleWriters
    /\ appended = <<>>
    /\ pristine = TRUE
    /\ last = Call("init")

\* log_entry = create_log_entry(session); open(self.log_file_path, 'a')
OpenForAppend(w, s) ==
    /\ writers[w].pc = "idle"
    /\ Len(lines) + Cardinality({v \in 1..MaxWriters : writers[v].pc # "idle"}) < MaxLines
    /\ Serializable(to_dict(s))
    /\ writers' = [writers EXCEPT ![w] = [pc |-> "open", session |-> s,
                                          entry |-> create_log_entry(s), at |-> Len(lines)]]
    /\ exists' = TRUE
    /\ last' = [Call("open") EXCEPT !.arg = s]
    /\ UNCHANGED <<clockVars, session, lines, old, log_file_path, appended, pristine>>

\* f.write(log_entry + '\n'): an entry that fills the buffer is written to
\* the file in this step.
WriteEntry(w) ==
    /\ writers[w].pc = "open"
    /\ IF LineBytes(writers[w].entry) + 1 >= BufferSize
       THEN /\ lines' = os_write(lines, writers[w].at, writers[w].entry)
            /\ appended' = Append(appended, writers[w].session)
            /\ writers' = [writers EXCEPT ![w].pc = "written"]
       ELSE /\ writers' = [writers EXCEPT ![w].pc = "buffered"]
            /\ UNCHANGED <<lines, appended>>
    /\ last' = [Call("write") EXCEPT !.arg = writers[w].session, !.before = lines,
                                     !.limit = writers[w].at]
    /\ UNCHANGED <<clockVars, session, exists, old, log_file_path, pristine>>

\* The end of the with block, and return True: what the buffer holds is
\* written to the file.
CloseFile(w) ==
    /\ writers[w].pc \in {"buffered", "written"}
    /\ IF writers[w].pc = "buffered"
       THEN /\ lines' = os_write(lines, writers[w].at, writers[w].entry)
            /\ appended' = Append(appended, writers[w].session)
       ELSE UNCHANGED <<lines, appended>>
    /\ writers' = [writers EXCEPT ![w] = IdleWriters[w]]
    /\ last' = [Call("log_session") EXCEPT !.arg = writers[w].session, !.before = lines,
                                           !.limit = writers[w].at]
    /\ UNCHANGED <<clockVars, session, exists, old, log_file_path, pristine>>

NextConcurrent ==
    \/ \E w \in 1..MaxWriters, s \in WriterInputs : OpenForAppend(w, s)
    \/ \E w \in 1..MaxWriters : WriteEntry(w)
    \/ \E w \in 1..MaxWriters : CloseFile(w)
    \/ ReadSessions(DefaultLimit, "ok")

SpecConcurrent == InitConcurrent /\ [][NextConcurrent]_vars

(***************************************************************************)
(* Rotation: the log store over files below, at and above the threshold,   *)
(* with and without a file left by an earlier rotation.                    *)
(***************************************************************************)
RotateFiles ==
    {<<>>,
     <<EarlierRecord>>,
     <<TextLine(RotateThreshold - 1)>>,
     <<TextLine(RotateThreshold)>>,
     <<EarlierRecord, TextLine(RotateThreshold)>>}

InitRotate ==
    /\ tick = 0
    /\ nextId = 0
    /\ session = PyNone
    /\ lines \in RotateFiles
    /\ exists \in (IF lines = <<>> THEN BOOLEAN ELSE {TRUE})
    /\ old \in {[exists |-> FALSE, lines |-> <<>>],
                [exists |-> TRUE, lines |-> <<EarlierRecord, EarlierRecord>>]}
    /\ log_file_path \in LogPaths
    /\ writers = IdleWriters
    /\ appended = <<>>
    /\ pristine = FALSE
    /\ last = Call("init")

NextRotate ==
    \/ \E io \in {"ok", "stat_denied", "rename_denied"} : RotateLogIfNeeded(io)
    \/ \E s \in {PendingWork, CompletedBreak} : LogSession(s, "ok", 0)
    \/ LogSession(PendingWork, "open_denied", 0)
    \/ ReadSessions(DefaultLimit, "ok")

SpecRotate == InitRotate /\ [][NextRotate]_vars

(***************************************************************************)
(* The request layer: POST /api/sessions.                                  *)
(***************************************************************************)
\* A JSON body with the given session_type and duration_minutes (PyNone
\* leaves the key out) and further items.
Body(session_type, duration, more) ==
    PyDict((IF session_type = PyNone THEN <<>> ELSE << <<"session_type", session_type>> >>)
           \o (IF duration = PyNone THEN <<>> ELSE << <<"duration_minutes", duration>> >>)
           \o more)

\* Bodies that name one of the three types and a positive whole duration.
GoodBodies ==
    {Body(Work, PyInt(25), <<>>),
     Body(ShortBreak, PyInt(5),
          << <<"task_description", PyStr(<<"Tea ", QUOTE, "break", QUOTE>>)>>,
             <<"completed", PyBool(TRUE)>>,
             <<"interruptions", PyInt(2)>> >>),
     Body(Work, PyInt(25),
          << <<"task_description",
               PyList(<<PyStr(<<"Read", TAB>>),
                        PyDict(<< <<"a\"b", NegativeZero>> >>)>>)>>,
             <<"completed", PyBool(FALSE)>>,
             <<"interruptions", PyInt(-3)>> >>)}
\* No body (or a body that is not JSON), an empty object, and bodies whose
\* session_type or duration_minutes is missing or wrong.
BadBodies ==
    {PyNone, PyDict(<<>>),
     Body(PyNone, PyInt(25), <<>>),
     Body(Nap, PyInt(25), <<>>),
     Body(PyStr(<<"Work">>), PyInt(25), <<>>),
     Body(PyInt(5), PyInt(25), <<>>),
     Body(PyList(<<Work>>), PyInt(25), <<>>),
     Body(Work, PyNone, <<>>),
     Body(Work, PyInt(0), <<>>),
     Body(Work, PyInt(-5), <<>>),
     Body(Work, PyStr(<<"invalid">>), <<>>),
     Body(Work, PyFloat(25), <<>>),
     Body(Work, PyBool(TRUE), <<>>)}
\* The bodies that ask for a completed session.
CompletedBodies == {body \in GoodBodies : Truthy(Get(body, "completed", PyNone))}
\* A body that is JSON but not an object.
OtherBodies == {PyList(<<PyInt(1)>>)}
RequestBodies == GoodBodies \cup BadBodies \cup OtherBodies

InitApi ==
    /\ tick = 0
    /\ nextId = 0
    /\ session = PyNone
    /\ lines \in {<<>>, <<EarlierRecord>>, <<DayBeforeRecord, EarlierRecord>>}
    /\ exists \in (IF lines = <<>> THEN BOOLEAN ELSE {TRUE})
    /\ old = [exists |-> FALSE, lines |-> <<>>]
    /\ log_file_path = DefaultLogPath
    /\ writers = IdleWriters
    /\ appended = <<>>
    /\ pristine = (lines = <<>>)
    /\ last = Call("init")

\* The logger answered True to the create_session that made this response.
Logged(made) == made.res.exc = "none" /\ Item(made.res.val, "success") = PyBool(TRUE)

\* POST /api/sessions with the given body.  A session id is drawn when the
\* session is constructed, that is when validation has passed.  The clock is
\* read by the constructor and, for a session that is to be completed, once
\* more by complete_session, gap ticks later.
CreateRequest(body, io, room, gap) ==
    /\ nextId < MaxSessions
    /\ Len(lines) < MaxLines
    /\ tick + gap <= MaxTick
    /\ io = "mkdir_denied" => ~exists
    /\ \E r \in {api_create_session(body, exists, lines, io, room, nextId + 1,
                                     utcnow(tick), utcnow(tick + gap))} :
           /\ gap > 0 => r.session # PyNone /\ r.session.completed = PyBool(TRUE)
           /\ tick' = tick + gap
           /\ nextId' = IF r.session # PyNone THEN nextId + 1 ELSE nextId
           /\ exists' = r.exists
           /\ lines' = r.lines
           /\ appended' = IF Logged(r) THEN Append(appended, r.session) ELSE appended
           /\ last' = [Call("api_create_session") EXCEPT
                          !.io = io, !.arg = body, !.exc = r.res.exc,
                          !.status = r.status, !.out = r.json,
                          !.sessions = IF r.session # PyNone THEN <<r.session>> ELSE <<>>,
                          !.ok = Logged(r),
                          !.before = lines]
    /\ UNCHANGED <<session, old, log_file_path, writers, pristine>>

\* The limit and date parameters of GET /api/sessions.
LimitArgs == {PyNone, PyStr(<<"1">>), PyStr(<<"abc">>)}
\* A limit with blanks around it, a sign and a leading zero, and one of
\* eleven digits.
PaddedLimit == PyStr(<<" +02 ">>)
LargeLimit == PyStr(<<"12345678901">>)
DateArgs ==
    {PyNone, PyStr(<<>>), PyStr(<<DateText(14)>>), PyStr(<<DateText(15)>>),
     PyStr(<<DateText(15), " ", "23:30:00", "Z">>),
     PyStr(<<"invalid-date">>), PyStr(<<"15/01/2025">>)}

\* GET /api/sessions?limit=..&date=..
GetSessions(limit_arg, date_arg, io) ==
    /\ \E r \in {api_get(get_sessions(limit_arg, date_arg, exists, lines, io,
                                       nextId + 1, utcnow(tick)))} :
           last' = [Call("api_get_sessions") EXCEPT
                       !.io = io, !.arg = PyList(<<limit_arg, date_arg>>),
                       !.exc = r.exc, !.status = r.status, !.out = r.json,
                       !.before = lines]
    /\ UNCHANGED <<clockVars, session, fileVars>>

\* GET /api/stats on a host whose date is the given day when the first
\* session is looked at, and the next day from the turn-th one on.
GetStats(today, turn, io) ==
    /\ \E r \in {api_get(get_session_stats(exists, lines, io, today, turn,
                                            nextId + 1, utcnow(tick)))} :
           last' = [Call("api_get_stats") EXCEPT
                       !.io = io, !.arg = PyInt(today), !.limit = turn,
                       !.exc = r.exc, !.status = r.status, !.out = r.json,
                       !.before = lines]
    /\ UNCHANGED <<clockVars, session, fileVars>>

\* The timezone of the host, in hours east of UTC.
HostOffsets == {-12, 0, 14}

NextApi ==
    \/ \E utc_offset \in HostOffsets :
          GetStats(date_today(utcnow(tick), utc_offset), 0, "ok")
    \/ GetStats(date_today(utcnow(tick), 0), 2, "ok")
    \/ GetSessions(LargeLimit, PyNone, "ok")
    \/ \E limit_arg \in LimitArgs, date_arg \in {PyNone, PyStr(<<"invalid-date">>)} :
          GetSessions(limit_arg, date_arg, "ok")
    \/ \E date_arg \in DateArgs \ {PyNone, PyStr(<<"invalid-date">>)} :
          GetSessions(PyStr(<<"1">>), date_arg, "ok")
    \/ GetSessions(PaddedLimit, PyStr(<<"invalid-date">>), "ok")
    \/ \E limit_arg \in LimitArgs \ {PyStr(<<"1">>)} :
          GetSessions(limit_arg, PyStr(<<DateText(15)>>), "ok")
    \/ \E body \in RequestBodies : CreateRequest(body, "ok", 0, 0)
    \/ \E body \in CompletedBodies : CreateRequest(body, "ok", 0, 1)
    \/ \E body \in GoodBodies, io \in {"open_denied", "mkdir_denied"} :
          CreateRequest(body, io, 0, 0)
    \/ \E room \in RoomLeft(PendingWork) \ {LineBytes(create_log_entry(PendingWork))} :
          CreateRequest(Body(Work, PyInt(25), <<>>), "disk_full", room, 0)
    \/ \E body \in BadBodies : CreateRequest(body, "open_denied", 0, 0)
    \/ ReadSessions(DefaultLimit, "ok")

SpecApi == InitApi /\ [][NextApi]_vars

(***************************************************************************)
(* The sessions of one run and the records it stores: a session is made,   *)
(* interrupted and completed, logged and read back, and sessions are       *)
(* created through the request layer.  The log holds what the program      *)
(* wrote, in this run or an earlier one.                                   *)
(***************************************************************************)
\* logger.log_session(session) of the session in flight, as create_session
\* logs a session: once.
LogInFlight(io, room) ==
    /\ session # PyNone
    /\ \A i \in 1..Len(appended) : appended[i].session_id # session.session_id
    /\ LogSession(session, io, room)

\* One session is in flight in a run, and time passes while it is pending.
NextCompletion ==
    \/ session # PyNone /\ session.end_time = PyNone /\ Tick
    \/ session = PyNone /\ NewSession(Work, PyInt(25), PyStr(<<"Write report">>))
    \/ AddInterruption
    \/ CompleteSession
    \/ DictRoundTrip
    \/ LogEntryRoundTrip
    \/ LogInFlight("ok", 0)
    \/ /\ session # PyNone
       /\ \E room \in RoomLeft(session) \ {LineBytes(create_log_entry(session))} :
              LogInFlight("disk_full", room)
    \/ \E body \in GoodBodies : CreateRequest(body, "ok", 0, 0)
    \/ \E body \in CompletedBodies : CreateRequest(body, "ok", 0, 1)
    \/ \E limit \in {1, DefaultLimit} : ReadSessions(limit, "ok")
    \/ \E day \in {14, 15} : ReadSessionsByDate(day, "ok")

SpecCompletion == InitApi /\ [][NextCompletion]_vars

(***************************************************************************)
(* The statistics functions, applied to lists of sessions of several days  *)
(* on hosts whose date is a Thursday, a Sunday and a Monday.               *)
(***************************************************************************)
MaxListed == 3
MaxPerWeek == 4
\* The number of sessions completed last week in the lists around the two
\* thresholds of the trend.
ThresholdBase == 10

\* A session of the given type started on the given day, completed or not.
SessionOn(session_type, day, done) ==
    IF done
    THEN complete_session(PomodoroSession(session_type, PyInt(25), PyStr(<<>>), 1,
                                          PyDatetime(day, 10, 0, "utc")),
                          PyDatetime(day, 11, 0, "utc"))
    ELSE PomodoroSession(session_type, PyInt(5), PyStr(<<>>), 1,
                         PyDatetime(day, 10, 0, "utc"))

Todays == {16, 19, 20}
ListedSessions ==
    {SessionOn(Work, 16, TRUE), SessionOn(Work, 16, FALSE), SessionOn(ShortBreak, 16, TRUE),
     SessionOn(Work, 13, TRUE), SessionOn(ShortBreak, 12, FALSE), SessionOn(Work, 17, TRUE)}
\* Lists for the trend: completed sessions of two weeks, and one more session.
TrendLists ==
    {[i \in 1..(a + b) |-> IF i <= a THEN SessionOn(Work, 5, TRUE)
                           ELSE SessionOn(Work, 14, TRUE)] \o more :
        a \in 0..MaxPerWeek, b \in 0..MaxPerWeek,
        more \in {<<>>, <<SessionOn(Work, 14, FALSE)>>, <<SessionOn(Work, 21, TRUE)>>,
                  <<SessionOn(Work, 21, TRUE), SessionOn(Work, 22, TRUE)>>,
                  <<SessionOn(Work, 1, TRUE)>>, <<SessionOn(Work, 9, TRUE)>>}}
    \cup
    {[i \in 1..(ThresholdBase + b) |-> IF i <= ThresholdBase THEN SessionOn(Work, 5, TRUE)
                                       ELSE SessionOn(Work, 14, TRUE)] :
        b \in (ThresholdBase - 2)..(ThresholdBase + 2)}

\* Sessions whose type was set to a value outside the three, as
\* session.session_type = value does, and sessions of the three types.
TypedSessions ==
    {[SessionOn(Work, 16, FALSE) EXCEPT !.session_type = v] :
        v \in {PyStr(<<"work">>), PyStr(<<"short_break">>), PyStr(<<"long_break">>),
               PyStr(<<"invalid_type">>), PyNone, PyList(<<PyStr(<<"work">>)>>)}}
\* Sessions of several hours of the day.
SessionAt(session_type, hour, done) ==
    [SessionOn(session_type, 16, done) EXCEPT !.start_time.hour = hour]
HourSessions ==
    {SessionAt(Work, 14, TRUE), SessionAt(Work, 9, TRUE), SessionAt(Work, 9, FALSE),
     SessionAt(ShortBreak, 9, TRUE), SessionAt(Work, 10, TRUE)}

\* The list of sessions and the date of the host are chosen at the start and
\* kept in the record of the last call.
InitStats ==
    /\ tick = 0
    /\ nextId = 0
    /\ session = PyNone
    /\ exists = FALSE
    /\ lines = <<>>
    /\ old = [exists |-> FALSE, lines |-> <<>>]
    /\ log_file_path = DefaultLogPath
    /\ writers = IdleWriters
    /\ appended = <<>>
    /\ pristine = TRUE
    /\ \E sessions \in SeqsUpTo(ListedSessions, MaxListed) \cup TrendLists
                        \cup SeqsUpTo(TypedSessions, MaxListed)
                        \cup SeqsUpTo(HourSessions, MaxListed),
          today \in Todays :
           last = [Call("init") EXCEPT !.sessions = sessions, !.arg = PyInt(today)]

\* calculate_daily_stats(sessions) on a host whose date is today
DailyStats ==
    /\ last' = [Call("calculate_daily_stats") EXCEPT
                   !.sessions = last.sessions, !.arg = last.arg,
                   !.out = calculate_daily_stats(last.sessions, last.arg.n)]
    /\ UNCHANGED <<clockVars, session, fileVars>>

\* calculate_weekly_stats(sessions)
WeeklyStats ==
    /\ last' = [Call("calculate_weekly_stats") EXCEPT
                   !.sessions = last.sessions, !.arg = last.arg,
                   !.out = calculate_weekly_stats(last.sessions, last.arg.n)]
    /\ UNCHANGED <<clockVars, session, fileVars>>

\* get_productivity_trends(sessions)
ProductivityTrends ==
    /\ last' = [Call("get_productivity_trends") EXCEPT
                   !.sessions = last.sessions, !.arg = last.arg,
                   !.out = get_productivity_trends(last.sessions, last.arg.n)]
    /\ UNCHANGED <<clockVars, session, fileVars>>

\* get_session_type_distribution(sessions)
SessionTypeDistribution ==
    /\ \E made \in {get_session_type_distribution(last.sessions)} :
           last' = [Call("get_session_type_distribution") EXCEPT
                       !.sessions = last.sessions, !.arg = last.arg,
                       !.exc = made.exc, !.out = made.val]
    /\ UNCHANGED <<clockVars, session, fileVars>>

\* get_peak_productivity_hours(sessions)
PeakProductivityHours ==
    /\ last' = [Call("get_peak_productivity_hours") EXCEPT
                   !.sessions = last.sessions, !.arg = last.arg,
                   !.out = get_peak_productivity_hours(last.sessions)]
    /\ UNCHANGED <<clockVars, session, fileVars>>

NextStats ==
    \/ DailyStats
    \/ WeeklyStats
    \/ ProductivityTrends
    \/ SessionTypeDistribution
    \/ PeakProductivityHours

SpecStats == InitStats /\ [][NextStats]_vars

(***************************************************************************)
(* Properties.                                                             *)
(***************************************************************************)
\* The last k elements of a sequence, all of it when it has no more than k.
LastK(seq, k) == IF k >= Len(seq) THEN seq ELSE SubSeq(seq, Len(seq) - k + 1, Len(seq))

\* C1: on a log that started empty and was not rotated, read_sessions(k) for
\* k >= 1 returns the k sessions appended last, the most recent first, and
\* all of them in reverse order of appending when there are no more than k;
\* the sessions appended are those for which log_session answered True.
C1_ReadMostRecentFirst ==
    (last.op = "read_sessions" /\ last.io = "ok" /\ pristine /\ last.limit >= 1)
        => /\ last.exc = "none"
           /\ last.sessions = Reverse(LastK(appended, last.limit))

\* completed is true exactly when end_time is set.
ConsistentCompletion(s) == (s.completed = PyBool(TRUE)) <=> (s.end_time # PyNone)

\* C2: completed is true if and only if end_time is present, in every session
\* of a run on a log the program wrote: the one in flight after construction
\* and after every add_interruption and complete_session, every one the
\* request layer created, every one appended, every one that read_sessions
\* or read_sessions_by_date made from a stored record, and every one that
\* from_dict or parse_log_entry made from what to_dict or create_log_entry
\* wrote.
C2_CompletedIffEndTime ==
    /\ session # PyNone => ConsistentCompletion(session)
    /\ \A i \in 1..Len(appended) : ConsistentCompletion(appended[i])
    /\ \A i \in 1..Len(last.sessions) : ConsistentCompletion(last.sessions[i])
    /\ (last.op \in {"from_dict", "parse_log_entry"} /\ last.out # PyNone)
           => ConsistentCompletion(last.out)

\* read_sessions gave back a completed session with its end_time and a
\* pending one without, both made and stored in this run.
C2_Witness ==
    /\ last.op = "read_sessions"
    /\ \E i, j \in 1..Len(last.sessions) :
           /\ last.sessions[i].completed = PyBool(TRUE)
           /\ last.sessions[i].end_time # PyNone
           /\ last.sessions[j].completed = PyBool(FALSE)
           /\ last.sessions[j].end_time = PyNone
           /\ \E m, n \in 1..Len(appended) :
                  appended[m] = last.sessions[i] /\ appended[n] = last.sessions[j]

\* session.validate(): one of the three types, a positive duration and no
\* negative count of interruptions.
ValidSession(s) ==
    /\ s.session_type \in ValidTypes
    /\ s.duration_minutes.t = "int" /\ s.duration_minutes.n > 0
    /\ s.interruptions.t = "int" /\ s.interruptions.n >= 0

\* A valid session went through from_dict(to_dict(x)) or through
\* parse_log_entry(create_log_entry(x)).
RoundTripMade ==
    /\ session # PyNone
    /\ \/ last.op = "parse_log_entry"
       \/ last.op = "from_dict" /\ last.arg = to_dict(session)
    /\ ValidSession(session)

\* The text has a surrogate that leads a pair directly before one that
\* trails a pair.
HasSurrogatePair(glyphs) ==
    \E i \in 1..(Len(glyphs) - 1) :
        IsHighSurrogate(glyphs[i]) /\ IsLowSurrogate(glyphs[i + 1])
RECURSIVE Paired(_)
\* The text with every such two characters replaced by the one character
\* of the pair.
Paired(glyphs) ==
    IF Len(glyphs) < 2 THEN glyphs
    ELSE IF IsHighSurrogate(glyphs[1]) /\ IsLowSurrogate(glyphs[2])
    THEN <<JoinSurrogates(glyphs[1], glyphs[2])>> \o Paired(SubSeq(glyphs, 3, Len(glyphs)))
    ELSE <<glyphs[1]>> \o Paired(Tail(glyphs))

\* C3, as stated: for a valid session x with any description text,
\* from_dict(to_dict(x)) and parse_log_entry(create_log_entry(x)) raise
\* nothing and give a session equal to x in every field.
C3_RoundTripAnyText ==
    RoundTripMade => last.exc = "none" /\ last.out = session

\* C3, amended: for a valid session x, from_dict(to_dict(x)) raises nothing
\* and gives a session equal to x in every field, and
\* parse_log_entry(create_log_entry(x)) gives x with every lead surrogate
\* and the trail surrogate directly after it in the description replaced by
\* the one character of the pair: a session equal to x in every field when
\* the description has no such two characters, as every text of Unicode
\* characters has none, and of another description otherwise.
C3_RoundTrip ==
    RoundTripMade =>
        /\ last.exc = "none"
        /\ last.op = "from_dict" => last.out = session
        /\ last.op = "parse_log_entry" =>
               /\ last.out = [session EXCEPT !.task_description =
                                                 PyStr(Paired(session.task_description.s))]
               /\ (last.out = session) <=> ~HasSurrogatePair(session.task_description.s)

\* A completed session with interruptions, a description that holds quotes,
\* a backslash, a tab, control characters, a character beyond U+FFFF and two
\* surrogates, a start with microseconds and an end without, came back from
\* its log entry.
C3_Witness ==
    /\ last.op = "parse_log_entry"
    /\ session # PyNone
    /\ ValidSession(session)
    /\ session.completed = PyBool(TRUE)
    /\ session.interruptions = PyInt(2)
    /\ session.task_description = EscapedText
    /\ session.start_time.us # 0
    /\ session.end_time.us = 0
    /\ last.out = session

\* A line that holds one session record: parse_log_entry makes a session of it.
Parseable(line) == parse_log_entry(line, 0, utcnow(0)) # PyNone

\* The lines of a sequence that hold a session record, in the same order.
ParseableOf(seq) == SelectSeq(seq, Parseable)

\* C4: whatever the file holds, read_sessions(k) for k >= 1 raises nothing
\* and returns the sessions of the parseable lines among the last k lines,
\* the most recent first; every other line is skipped.
C4_BadLinesSkipped ==
    (last.op = "read_sessions" /\ last.io = "ok" /\ last.limit >= 1)
        => /\ last.exc = "none"
           /\ last.sessions =
                  ParseAll(ParseableOf(Reverse(LastK(last.before, last.limit))),
                           nextId + 1, utcnow(tick))

\* The operations of the log store.
LogStoreOps ==
    {"ensure_log_directory", "log_session", "read_sessions",
     "read_sessions_by_date", "rotate_log_if_needed"}

\* C5: no operation of the log store lets an exception out, whichever step of
\* it the file system refuses, the existence test included; a failed append or
\* rotation answers False and a failed read answers the empty list.
C5_NoExceptionEscapes ==
    last.op \in LogStoreOps
        => /\ last.exc = "none"
           /\ last.io # "ok" /\ last.op \in {"read_sessions", "read_sessions_by_date"}
                  => last.sessions = <<>>
           /\ last.io # "ok" /\ last.op \in {"log_session", "rotate_log_if_needed"}
                  => ~last.ok

\* C6: when the request passed validation and the logger could not append,
\* POST /api/sessions still answers 201 with the id of the new session,
\* success false and the message 'Failed to log session'.
C6_LogFailureIsAWarning ==
    (/\ last.op = "api_create_session"
     /\ last.io # "ok"
     /\ validate_session_request(last.arg).exc = "none")
        => /\ last.exc = "none"
           /\ last.status = 201
           /\ Item(last.out, "success") = PyBool(FALSE)
           /\ Item(last.out, "message") = PyStr(<<"Failed to log session">>)
           /\ Item(last.out, "session_id") = last.sessions[1].session_id

\* A well-formed request met a file system that filled up during the write,
\* which left the beginning of the entry in the file, and was answered 201
\* with success false.
C6_Witness ==
    /\ last.op = "api_create_session"
    /\ last.io = "disk_full"
    /\ last.arg \in GoodBodies
    /\ last.status = 201
    /\ Item(last.out, "success") = PyBool(FALSE)
    /\ Item(last.out, "session_id") = generate_session_id(nextId)
    /\ TornBytes(lines) > TornBytes(last.before)

\* A request body the interface is to refuse: no body or an empty one, or a
\* session_type that is missing or not one of the three strings, or a
\* duration_minutes that is missing, not an integer or not positive.
Malformed(body) ==
    \/ ~Truthy(body)
    \/ /\ body.t = "dict"
       /\ \/ ~HasKey(body, "session_type")
          \/ Item(body, "session_type") \notin ValidTypes
          \/ ~HasKey(body, "duration_minutes")
          \/ Item(body, "duration_minutes").t # "int"
          \/ Item(body, "duration_minutes").n <= 0

\* C7: every malformed request to POST /api/sessions is answered 400, never
\* 500, and appends nothing to the log.
C7_MalformedIsClientError ==
    (last.op = "api_create_session" /\ Malformed(last.arg))
        => last.status = 400 /\ lines = last.before

\* C8: every session the store appended and every session a read returned has
\* one of the types work, short_break and long_break.
C8_OnlyEnumeratedTypes ==
    /\ \A i \in 1..Len(appended) : appended[i].session_type \in ValidTypes
    /\ last.op \in {"read_sessions", "read_sessions_by_date"}
           => \A i \in 1..Len(last.sessions) : last.sessions[i].session_type \in ValidTypes

\* C9: no session that POST /api/sessions built and appended has a negative
\* count of interruptions.
C9_InterruptionsNeverNegative ==
    \A i \in 1..Len(appended) :
        appended[i].interruptions.t = "int" /\ appended[i].interruptions.n >= 0

\* C10: end_time is None while the session is not completed, and no step
\* changes the end_time of a session once it is set.
C10_EndTimeSetOnce ==
    [][/\ session # PyNone /\ ~Truthy(session.completed) => session.end_time = PyNone
       /\ (/\ session # PyNone /\ session' # PyNone
           /\ session'.session_id = session.session_id
           /\ session.end_time # PyNone)
              => session'.end_time = session.end_time]_vars

\* C11: complete_session can be called again and again: after every call
\* completed is true and end_time is the clock reading of that call, so a
\* later call replaces the end_time of an earlier one; no step takes a
\* completed session back to not completed; complete_session and
\* add_interruption leave session_id and start_time as they were.
C11_CompleteOverwritesEndTime ==
    [][/\ last'.op = "complete_session"
           => /\ session'.completed = PyBool(TRUE)
              /\ session'.end_time = utcnow(tick')
       /\ last'.op \in {"complete_session", "add_interruption"}
           => /\ session'.session_id = session.session_id
              /\ session'.start_time = session.start_time
       /\ (/\ session # PyNone /\ session' # PyNone
           /\ session'.session_id = session.session_id
           /\ Truthy(session.completed))
           => Truthy(session'.completed)]_vars

\* complete_session was called on a session that was completed at an earlier
\* clock reading, and end_time is now the later reading.
C11_Witness ==
    /\ last.op = "complete_session"
    /\ last.before[1].completed = PyBool(TRUE)
    /\ last.before[1].end_time # utcnow(tick)
    /\ session.completed = PyBool(TRUE)
    /\ session.end_time = utcnow(tick)
    /\ session.start_time = last.before[1].start_time
    /\ session.session_id = last.before[1].session_id

\* C12: for every limit >= 0, zero included, and whatever the file holds,
\* read_sessions(limit) returns no more than limit sessions, each of them the
\* session of one of the last limit lines of the file.
C12_LimitIsMaximum ==
    (last.op = "read_sessions" /\ last.limit >= 0)
        => /\ Len(last.sessions) <= last.limit
           /\ \A i \in 1..Len(last.sessions) :
                  \E k \in 1..Len(LastK(last.before, last.limit)) :
                      last.sessions[i] =
                          parse_log_entry(LastK(last.before, last.limit)[k],
                                          nextId + 1, utcnow(tick))

\* A value that is the text of an ISO-8601 timestamp.
IsTimestamp(v) == v.t = "str" /\ fromisoformat(v).exc = "none"

\* C13: from_dict raises and gives no session when start_time is missing or
\* is not a timestamp, and when end_time is present, not null, and is not a
\* timestamp; a dictionary that has well-formed timestamps and lacks only
\* optional keys gives a session with the defaults for the keys it lacks.
C13_BadTimestampFailsLoudly ==
    (last.op = "from_dict" /\ last.arg.t = "dict"
        /\ \A k \in {"session_type", "duration_minutes", "session_id"} : HasKey(last.arg, k))
        => IF \/ ~HasKey(last.arg, "start_time")
              \/ ~IsTimestamp(Item(last.arg, "start_time"))
              \/ /\ HasKey(last.arg, "end_time")
                 /\ Item(last.arg, "end_time") # PyNone
                 /\ ~IsTimestamp(Item(last.arg, "end_time"))
           THEN last.exc # "none" /\ last.out = PyNone
           ELSE /\ last.exc = "none"
                /\ ~HasKey(last.arg, "task_description")
                       => last.out.task_description = PyStr(<<>>)
                /\ ~HasKey(last.arg, "completed") => last.out.completed = PyBool(FALSE)
                /\ ~HasKey(last.arg, "interruptions") => last.out.interruptions = PyInt(0)
                /\ ~HasKey(last.arg, "end_time") => last.out.end_time = PyNone

\* C14: read_sessions_by_date(day) returns the sessions of read_sessions(1000)
\* that started on that day, in the same order; a record that lies before the
\* last 1000 lines of the file is not returned even when it is of that day.
C14_ByDateFiltersReadWindow ==
    (last.op = "read_sessions_by_date" /\ last.io = "ok")
        => /\ last.exc = "none"
           /\ \E all \in {read_sessions(exists, last.before, 1000, "ok",
                                        nextId + 1, utcnow(tick)).val} :
                  last.sessions =
                      SelectSeq(all, LAMBDA s : s.start_time.day = last.limit)
           /\ \A i \in 1..Len(last.sessions) :
                  \E k \in 1..Len(LastK(last.before, 1000)) :
                      last.sessions[i] = parse_log_entry(LastK(last.before, 1000)[k],
                                                         nextId + 1, utcnow(tick))

\* The file holds a record of the 14th and then a record of the 15th, and
\* read_sessions_by_date(14) gave the one of the 14th alone.
C14_Witness ==
    /\ last.op = "read_sessions_by_date" /\ last.io = "ok"
    /\ last.limit = 14
    /\ Len(last.before) = 2
    /\ Len(last.sessions) = 1
    /\ last.sessions[1].start_time.day = 14
    /\ create_log_entry(last.sessions[1]) = last.before[1]

\* The file holds a record of the 14th ahead of 1000 records of the 15th,
\* and read_sessions_by_date(14) gave nothing.
C14_WitnessWindow ==
    /\ last.op = "read_sessions_by_date" /\ last.io = "ok"
    /\ last.limit = 14
    /\ Len(last.before) = 1001
    /\ parse_log_entry(last.before[1], 0, utcnow(0)).start_time.day = 14
    /\ last.sessions = <<>>

\* C15: rotate_log_if_needed returns True and changes nothing when the log
\* file is missing, and when it exists with a size of 10 MiB or less; when
\* the size is above 10 MiB it returns True, the rotated file becomes what
\* the log file held, whatever an earlier rotation left there, and the log
\* file is gone.  Right after such a rotation read_sessions returns nothing
\* and a successful log_session leaves a file that holds that one record.
C15_RotateWhenOversized ==
    [][/\ (last'.op = "rotate_log_if_needed" /\ last'.io = "ok")
           => /\ last'.exc = "none" /\ last'.ok
              /\ IF exists /\ FileSize(lines) > 10 * 1024 * 1024
                 THEN /\ old' = [exists |-> TRUE, lines |-> lines]
                      /\ ~exists' /\ lines' = <<>>
                 ELSE UNCHANGED <<exists, lines, old>>
       /\ (/\ last.op = "rotate_log_if_needed" /\ last.io = "ok"
           /\ FileSize(last.before) > 10 * 1024 * 1024)
           => /\ last'.op = "read_sessions" /\ last'.io = "ok"
                  => last'.sessions = <<>>
              /\ last'.op = "log_session" /\ last'.ok
                  => exists' /\ lines' = <<create_log_entry(last'.arg)>>]_vars

\* A file above 10 MiB was rotated, and the append that followed made a log
\* file of one record.
C15_Witness ==
    /\ last.op = "log_session" /\ last.ok
    /\ last.before = <<>>
    /\ exists /\ lines = <<create_log_entry(last.arg)>>
    /\ old.exists
    /\ FileSize(old.lines) > 10 * 1024 * 1024
    /\ Len(old.lines) = 2

\* C16: GET /api/sessions with a limit that is absent or a numeral and a
\* date that does not parse as an ISO date answers 200 with what the same
\* request without a date is answered: the sessions of read_sessions(limit),
\* the most recent first, and their number as total.
C16_BadDateFallsBack ==
    (/\ last.op = "api_get_sessions" /\ last.io = "ok"
     /\ py_int(IF last.arg.elems[1] = PyNone THEN PyStr(<<"100">>)
               ELSE last.arg.elems[1]).exc = "none"
     /\ Truthy(last.arg.elems[2])
     /\ fromisoformat(last.arg.elems[2]).exc # "none")
        => /\ last.status = 200 /\ last.exc = "none"
           /\ last.out = get_sessions(last.arg.elems[1], PyNone, exists, lines, "ok",
                                      nextId + 1, utcnow(tick)).val
           /\ \E read \in {read_sessions(exists, lines,
                               as_index(py_int(IF last.arg.elems[1] = PyNone
                                               THEN PyStr(<<"100">>)
                                               ELSE last.arg.elems[1]).val),
                               "ok", nextId + 1, utcnow(tick)).val} :
                  /\ Item(last.out, "total") = PyInt(Len(read))
                  /\ Item(last.out, "sessions") =
                         PyList([i \in 1..Len(read) |-> to_dict(read[i])])

\* A request with limit=1 and date=invalid-date on a file of two records was
\* answered with the later record alone.
C16_Witness ==
    /\ last.op = "api_get_sessions"
    /\ last.arg = PyList(<<PyStr(<<"1">>), PyStr(<<"invalid-date">>)>>)
    /\ Len(lines) >= 2
    /\ last.status = 200
    /\ Item(last.out, "total") = PyInt(1)
    /\ Item(last.out, "sessions").elems[1] = json_loads(lines[Len(lines)].doc).val

\* The value of a number in tenths.
Tenths(v) == IF v.t = "int" THEN 10 * v.n ELSE v.tenths

\* The sessions read_sessions(1000) gives on the file as it is.
ReadForStats == read_sessions(exists, lines, 1000, "ok", nextId + 1, utcnow(tick)).val

\* C17: over the sessions of read_sessions(1000), GET /api/stats reports
\* their number as total_sessions, the number of completed ones as
\* completed_sessions, the sum of duration_minutes of the completed work
\* sessions as total_focus_minutes, and as completion_rate the tenth nearest
\* to completed / total x 100, 0 when there is no session, which is the value
\* of get_completion_rate; completed_sessions <= total_sessions and
\* 0 <= completion_rate <= 100.
C17_StatsOverReadWindow ==
    (last.op = "api_get_stats" /\ last.io = "ok")
        => \E read \in {ReadForStats} :
           /\ last.status = 200
           /\ Item(last.out, "total_sessions") = PyInt(Len(read))
           /\ Item(last.out, "completed_sessions") =
                  PyInt(Cardinality({i \in 1..Len(read) : read[i].completed = PyBool(TRUE)}))
           /\ Item(last.out, "total_focus_minutes") =
                  PyInt(SumTo([i \in 1..Len(read) |->
                                  IF /\ read[i].completed = PyBool(TRUE)
                                     /\ read[i].session_type = PyStr(<<"work">>)
                                  THEN read[i].duration_minutes.n ELSE 0],
                              Len(read)))
           /\ \E rate \in {Tenths(Item(last.out, "completion_rate"))},
                 done \in {Item(last.out, "completed_sessions").n},
                 total \in {Item(last.out, "total_sessions").n} :
                  /\ done <= total
                  /\ 0 <= rate /\ rate <= 1000
                  /\ total = 0 => rate = 0
                  /\ 2 * (rate * total - 1000 * done) <= total
                  /\ 2 * (1000 * done - rate * total) <= total
                  /\ rate = Tenths(get_completion_rate(read))

\* Two of the three sessions in the file are completed, only one of the two
\* is a work session, and the statistics say 66.7 and 25 focus minutes.
C17_Witness ==
    /\ last.op = "api_get_stats" /\ last.status = 200
    /\ Item(last.out, "total_sessions") = PyInt(3)
    /\ Item(last.out, "completed_sessions") = PyInt(2)
    /\ Item(last.out, "completion_rate") = PyFloat(667)
    /\ Item(last.out, "total_focus_minutes") = PyInt(25)

\* How many sessions of the list handed to the last call started on a day
\* from lo to hi and meet the condition.
CountOn(lo, hi, Cond(_)) ==
    Cardinality({i \in 1..Len(last.sessions) :
                    /\ lo <= last.sessions[i].start_time.day
                    /\ last.sessions[i].start_time.day <= hi
                    /\ Cond(last.sessions[i])})
IsAny(s) == TRUE
IsDone(s) == s.completed = PyBool(TRUE)
IsWork(s) == s.session_type = PyStr(<<"work">>)
IsBreak(s) == s.session_type # PyStr(<<"work">>)

\* C18: calculate_daily_stats counts the sessions that started today:
\* total_sessions is their number, completed_sessions the completed ones,
\* total_focus_minutes the minutes of the completed work sessions,
\* work_sessions the work sessions and break_sessions the others, so that
\* work_sessions + break_sessions = total_sessions; for the empty list every
\* value reported is zero.
C18_DailyStatsOfToday ==
    last.op = "calculate_daily_stats"
        => IF last.sessions = <<>>
           THEN \A i \in 1..Len(last.out.items) : Tenths(last.out.items[i][2]) = 0
           ELSE /\ Item(last.out, "total_sessions").n = CountOn(last.arg.n, last.arg.n, IsAny)
                /\ Item(last.out, "completed_sessions").n
                       = CountOn(last.arg.n, last.arg.n, IsDone)
                /\ Item(last.out, "total_focus_minutes").n
                       = 25 * CountOn(last.arg.n, last.arg.n, LAMBDA s : IsDone(s) /\ IsWork(s))
                /\ Item(last.out, "work_sessions").n = CountOn(last.arg.n, last.arg.n, IsWork)
                /\ Item(last.out, "break_sessions").n = CountOn(last.arg.n, last.arg.n, IsBreak)
                /\ Item(last.out, "work_sessions").n + Item(last.out, "break_sessions").n
                       = Item(last.out, "total_sessions").n

\* C19: for every list, the empty one and one with no session of the current
\* week included, calculate_weekly_stats returns a daily_breakdown with the
\* seven names Monday to Sunday, each with the number of sessions and of
\* completed sessions of that day among the sessions from the Monday of the
\* current week to today.
C19_WeeklyBreakdownAlwaysSevenDays ==
    last.op = "calculate_weekly_stats"
        => /\ HasKey(last.out, "daily_breakdown")
           /\ \A i \in 1..7 :
                  \E day \in {last.arg.n - weekday(last.arg.n) + i - 1} :
                      /\ HasKey(Item(last.out, "daily_breakdown"), DayNames[i])
                      /\ Item(Item(Item(last.out, "daily_breakdown"), DayNames[i]), "sessions").n
                             = IF day <= last.arg.n THEN CountOn(day, day, IsAny) ELSE 0
                      /\ Item(Item(Item(last.out, "daily_breakdown"), DayNames[i]), "completed").n
                             = IF day <= last.arg.n THEN CountOn(day, day, IsDone) ELSE 0

\* C20: get_productivity_trends looks at the sessions of the 14 days up to
\* today.  With L the completed sessions of [today-14, today-7) and T those of
\* [today-7, today]: the empty list gives stable, 0, 'No data available';
\* fewer than two sessions in the 14 days give stable, 0, 'Insufficient
\* data'; L = 0 and T > 0 give improving and 100.0; L > 0 gives the change
\* (T - L) / L x 100 to one decimal.  A session dated after today counts
\* nowhere.
C20_TrendOverTrailingFortnight ==
    last.op = "get_productivity_trends"
        => \E L \in {CountOn(last.arg.n - 14, last.arg.n - 8, IsDone)},
              T \in {CountOn(last.arg.n - 7, last.arg.n, IsDone)} :
               IF last.sessions = <<>>
               THEN last.out = trend_result("stable", PyFloat(0), <<"No data available">>)
               ELSE IF CountOn(last.arg.n - 14, last.arg.n, IsAny) < 2
               THEN last.out = trend_result("stable", PyFloat(0), <<"Insufficient data">>)
               ELSE IF L = 0
               THEN T > 0 => /\ Item(last.out, "trend") = PyStr(<<"improving">>)
                             /\ Item(last.out, "change") = PyFloat(1000)
               ELSE /\ 2 * (Item(last.out, "change").tenths * L - 1000 * (T - L)) <= L
                    /\ 2 * (1000 * (T - L) - Item(last.out, "change").tenths * L) <= L

\* The two counts of completed sessions that get_productivity_trends hands
\* to its classification: those of the sessions from today - 14 on that
\* started before today - 7, and of those that started from today - 7 on.
LastWeekCompleted == CountOn(last.arg.n - 14, last.arg.n - 8, IsDone)
ThisWeekCompleted == CountOn(last.arg.n - 7, 62, IsDone)

\* C21: when get_productivity_trends classifies two counts L > 0 and T (at
\* least two sessions in its window), the trend is improving iff
\* (T - L) / L x 100 > 10, declining iff it is < -10, and stable otherwise:
\* exactly +10 percent (10 -> 11) and exactly -10 percent (10 -> 9) are stable.
C21_TrendThresholds ==
    (/\ last.op = "get_productivity_trends"
     /\ CountOn(last.arg.n - 14, 62, IsAny) >= 2
     /\ LastWeekCompleted > 0)
        => /\ Item(last.out, "trend") = PyStr(<<"improving">>)
                  <=> 100 * (ThisWeekCompleted - LastWeekCompleted) > 10 * LastWeekCompleted
           /\ Item(last.out, "trend") = PyStr(<<"declining">>)
                  <=> 100 * (ThisWeekCompleted - LastWeekCompleted) < -10 * LastWeekCompleted
           /\ Item(last.out, "trend") = PyStr(<<"stable">>)
                  <=> /\ 100 * (ThisWeekCompleted - LastWeekCompleted) <= 10 * LastWeekCompleted
                      /\ 100 * (ThisWeekCompleted - LastWeekCompleted) >= -10 * LastWeekCompleted

\* Ten sessions completed last week and eleven this week: a change of exactly
\* +10.0, reported as stable.
C21_Witness ==
    /\ last.op = "get_productivity_trends"
    /\ LastWeekCompleted = ThresholdBase
    /\ 10 * (ThisWeekCompleted - LastWeekCompleted) = LastWeekCompleted
    /\ Item(last.out, "trend") = PyStr(<<"stable">>)
    /\ Item(last.out, "change") = PyFloat(100)

\* How many sessions of the list handed to the last call have the given type.
CountType(name) ==
    Cardinality({i \in 1..Len(last.sessions) : last.sessions[i].session_type = PyStr(<<name>>)})

\* C22: get_session_type_distribution returns, for every list of sessions,
\* the three buckets work, short_break and long_break and no other, each the
\* number of sessions of exactly that type; a session of any other type is
\* left out of all of them, and the empty list gives three zeros.
C22_TypeDistribution ==
    last.op = "get_session_type_distribution"
        => /\ last.exc = "none"
           /\ last.out.t = "dict"
           /\ [i \in 1..Len(last.out.items) |-> last.out.items[i][1]]
                  = <<"work", "short_break", "long_break">>
           /\ \A name \in {"work", "short_break", "long_break"} :
                  Item(last.out, name) = PyInt(CountType(name))

\* The positions, in the list handed to the last call, of the completed work
\* sessions that started in the given hour.
CountedAt(hour) ==
    {i \in 1..Len(last.sessions) :
        /\ last.sessions[i].session_type = PyStr(<<"work">>)
        /\ last.sessions[i].completed = PyBool(TRUE)
        /\ last.sessions[i].start_time.hour = hour}

\* C23: get_peak_productivity_hours counts the completed work sessions per
\* hour of their start.  With none (empty list, breaks only, uncompleted work
\* only) it returns peak_hour None and sessions_count 0; otherwise
\* sessions_count is the largest count, peak_hour an hour that has it, and of
\* several hours that have it the one whose first session comes first in the
\* list.
C23_PeakHourFirstOfTies ==
    last.op = "get_peak_productivity_hours"
        => IF \A hour \in Hours : CountedAt(hour) = {}
           THEN last.out = PyDict(<< <<"peak_hour", PyNone>>, <<"sessions_count", PyInt(0)>> >>)
           ELSE \E peak \in Hours :
                  /\ Item(last.out, "peak_hour") = PyInt(peak)
                  /\ Item(last.out, "sessions_count") = PyInt(Cardinality(CountedAt(peak)))
                  /\ \A hour \in Hours : Cardinality(CountedAt(hour)) <= Cardinality(CountedAt(peak))
                  /\ \A hour \in Hours \ {peak} :
                         Cardinality(CountedAt(hour)) = Cardinality(CountedAt(peak))
                             => \E i \in CountedAt(peak) : \A j \in CountedAt(hour) : i < j

\* Two hours tie, and the later hour of the day, met first in the list, is
\* the peak.
C23_Witness ==
    /\ last.op = "get_peak_productivity_hours"
    /\ Item(last.out, "peak_hour") = PyInt(14)
    /\ Cardinality(CountedAt(14)) = Cardinality(CountedAt(9))
    /\ Item(last.out, "sessions_count").n >= 1

\* C24: the constructor accepts every type and every duration, and validate
\* on any session returns True exactly when the type is one of work,
\* short_break and long_break, duration_minutes > 0 and interruptions >= 0,
\* returns False otherwise, raises nothing and leaves the session as it was.
C24_ValidateIsTheExplicitCheck ==
    last.op = "validate"
        => /\ last.exc = "none"
           /\ last.out = PyBool(/\ session.session_type \in ValidTypes
                                /\ Orderable(session.duration_minutes)
                                /\ Number(session.duration_minutes) > 0
                                /\ Orderable(session.interruptions)
                                /\ Number(session.interruptions) >= 0)
           /\ session = last.before[1]

\* C25: validate_session_type returns a boolean for every value and raises
\* nothing: True for exactly the strings work, short_break and long_break,
\* False for a string in another case, for None and for every value that is
\* not a string (a number, a list, a mapping).
C25_ValidTypeIsTotal ==
    last.op = "validate_session_type"
        => /\ last.exc = "none"
           /\ last.out = PyBool(last.arg \in ValidTypes)

\* C26: whatever the name and the extension of the log path, a rotation
\* moves the oversized file to the path made of the whole log path followed
\* by '.old' (sessions.log to sessions.log.old, data.txt to data.txt.old,
\* journal to journal.old).
C26_RotatedToNameDotOld ==
    (last.op = "rotate_log_if_needed" /\ last.out # PyNone)
        => last.out = PyStr(last.arg.s \o <<".", "o", "l", "d">>)

\* C27: the today of the statistics is the date in the zone of the
\* start_time stamped at construction, so at every instant and on a host of
\* any timezone each session created at that instant is one of the
\* today_sessions of the Stats endpoint (on a log that started empty, so
\* that every session in it was created by the program at this instant).
C27_CreatedNowIsToday ==
    (last.op = "api_get_stats" /\ last.status = 200 /\ pristine)
        => Item(last.out, "today_sessions").n
               >= Len(SelectSeq(ReadForStats, LAMBDA s : s.start_time = utcnow(tick)))

\* C28: when appends of several writers overlap, each through its own
\* SessionLogger and its own file opened for append, every record appended
\* is one whole line of the file, none is lost or split, and a read returns
\* all the sessions: the file is the entries written, one line each, in the
\* order of their writes, and read_sessions gives them back, newest first.
C28_OverlappingAppendsKeepRecords ==
    /\ lines = [i \in 1..Len(appended) |-> create_log_entry(appended[i])]
    /\ last.op = "read_sessions"
           => /\ last.exc = "none"
              /\ last.sessions = Reverse(appended)

\* A writer opened the file, another writer wrote a record that fills the
\* buffer meanwhile, at its f.write, and the first one has now written its
\* own on closing the file: both records are in the file.
C28_Witness ==
    /\ last.op = "log_session"
    /\ last.limit < Len(last.before)
    /\ Len(last.before) = 1
    /\ LineBytes(last.before[1]) + 1 >= BufferSize
    /\ Len(lines) = 2
    /\ lines[2] = create_log_entry(last.arg)
    /\ lines[1] = last.before[1]

\* What a read gives is what the file holds: the result of the last read
\* operation is the one the same call gives on the file as it is now.
ReadShowsFile ==
    /\ last.op = "read_sessions" /\ last.io = "ok"
           => last.sessions
                  = read_sessions(exists, lines, last.limit, "ok", nextId + 1, utcnow(tick)).val
    /\ last.op = "api_get_sessions"
           => last.out = api_get(get_sessions(last.arg.elems[1], last.arg.elems[2], exists,
                                              lines, "ok", nextId + 1, utcnow(tick))).json

\* The lines of a file that end in a newline: all of them, but for what a
\* write cut short left after the last newline.
Terminated(file) == IF TornBytes(file) > 0 THEN SubSeq(file, 1, Len(file) - 1) ELSE file

\* The content of one file is the beginning of the content of the other: the
\* terminated lines are the first lines of the other file, and the bytes
\* after the last newline are the first of the bytes that follow them there.
BeginsWith(after, before) ==
    /\ Len(before) <= Len(after)
    /\ SubSeq(after, 1, Len(Terminated(before))) = Terminated(before)
    /\ TornBytes(before) > 0
           => \/ after[Len(before)] = before[Len(before)]
              \/ /\ after[Len(before)].kind \in {"partial", "text"}
                 /\ after[Len(before)].bytes > TornBytes(before)

\* One operation on a log that is not rotated: what the file held is the
\* beginning of what it holds, a read operation leaves the file as it is, a
\* Create that logged its session adds the bytes of the entry of the session
\* and one newline, after which the file ends (one line, the entry, when
\* the file ended in a newline before), and any other Create adds no newline.
AppendOnlyStep ==
    /\ BeginsWith(lines', lines)
    /\ last'.op \in {"read_sessions", "api_get_sessions", "api_get_stats"}
           => lines' = lines /\ exists' = exists
    /\ last'.op = "api_create_session"
           => IF last'.status = 201 /\ Item(last'.out, "success") = PyBool(TRUE)
              THEN /\ Len(Terminated(lines')) = Len(Terminated(lines)) + 1
                   /\ TornBytes(lines') = 0
                   /\ FileSize(lines')
                          = FileSize(lines) + LineBytes(create_log_entry(last'.sessions[1])) + 1
                   /\ TornBytes(lines) = 0
                          => lines' = Append(lines, create_log_entry(last'.sessions[1]))
              ELSE Len(Terminated(lines')) = Len(Terminated(lines))

\* C29: the log is append-only.  Over Create, List, Stats and the reads, with
\* no rotation, the lines in the file are never modified, removed or
\* reordered, a read leaves the file unchanged and gives what the file holds
\* (so two reads with no append between them give equal results), and each
\* successful append adds exactly one line.
C29_LogIsAppendOnly == []ReadShowsFile /\ [][AppendOnlyStep]_vars

\* A Create has added its line after the two lines the file held.
C29_Witness ==
    /\ last.op = "api_create_session" /\ last.status = 201
    /\ Len(last.before) = 2
    /\ Len(lines) = 3 /\ SubSeq(lines, 1, 2) = last.before
    /\ lines[3] = create_log_entry(last.sessions[1])

\* C30: when GET /api/sessions carries a date that parses, the limit
\* parameter has no effect: whatever the limit, the response is 200 with
\* read_sessions_by_date(date) over the most recent 1000 records, which may
\* hold more sessions than the limit.
C30_LimitIgnoredWithDate ==
    (/\ last.op = "api_get_sessions"
     /\ Truthy(last.arg.elems[2])
     /\ fromisoformat(last.arg.elems[2]).exc = "none")
        => /\ last.status = 200
           /\ last.out = sessions_result(
                  read_sessions_by_date(exists, lines, fromisoformat(last.arg.elems[2]).val.day,
                                        "ok", nextId + 1, utcnow(tick)).val)

====
